---- MODULE Spec2Model ----
(***************************************************************************)
(* Breadboard: a Graph (node definitions, wiring, layout), its             *)
(* FinalizeNodes validation and topological sort, GraphState instances     *)
(* with timestamp-based dirty propagation, and NodeEventBroadcaster /      *)
(* NodeEventListener event injection.                                      *)
(*                                                                         *)
(* Indices are 1-based here (node 1 is nodes_[0], output 1 is output       *)
(* edge 0).  Asserts are modelled as in a debug build: a failed assert     *)
(* aborts the program.                                                     *)
(***************************************************************************)
EXTENDS Integers, Sequences, FiniteSets, TLC

----------------------------------------------------------------------------
(* Bounds *)

\* nodes a builder adds to the graph (build specification)
MaxNodes == 3
\* input edges a builder pushes, over all nodes (build specification)
MaxEdges == 3
\* GraphState instances created from the graph
NumStates == 2
\* passes: no Execute pass starts at this Timestamp
MaxTimestamp == 3
\* the values callbacks write and defaults are set to: 1..MaxValue
MaxValue == 2
\* frames the call stack of the program has room for
MaxDepth == 6
\* turns of the loop of main (500 in the sample)
MaxLoop == 10

\* how often FinalizeNodes is called again on one graph
MaxAgain == 2

\* calls of LoadGraph per file
MaxLoads == 4

----------------------------------------------------------------------------
(* Types, signatures *)

\* sizeof(Timestamp), Timestamp is uint32_t
kTimestampSize == 4
\* sizeof(NodeEventListener) on LP64: intrusive_list_node (2 pointers),
\* GraphState*, Timestamp (+ padding), EventId
kListenerSize == 40
\* alignment_of<NodeEventListener> on LP64
kListenerAlign == 8

\* TypeRegistry<int> and TypeRegistry<void>
Types ==
  [ Int  |-> [size |-> 4, alignment |-> 4],
    Void |-> [size |-> 0, alignment |-> 1] ]

EventIds == {"E1", "E2"}

\* the value CaptureEvent::Execute sets its output to
kCaptureValue == 1

\* Node kinds registered with a module: what OnRegister declares.
Signatures ==
  [ Capture |-> [input_parameters |-> << >>,
                 output_parameters |-> <<"Int">>,
                 event_listeners |-> <<"E1">>],
    Count   |-> [input_parameters |-> <<"Int">>,
                 output_parameters |-> <<"Int">>,
                 event_listeners |-> << >>],
    Join    |-> [input_parameters |-> <<"Int", "Int">>,
                 output_parameters |-> <<"Int">>,
                 event_listeners |-> << >>],
    Signal  |-> [input_parameters |-> <<"Void">>,
                 output_parameters |-> <<"Void">>,
                 event_listeners |-> <<"E2">>] ]

SigNames == DOMAIN Signatures

----------------------------------------------------------------------------
(* Graph definition: nodes and edges *)

\* OutputEdgeTarget(): no target
NoTarget == [node_index |-> 0, edge_index |-> 0]

\* InputEdge()
NewInputEdge == [connected |-> FALSE, data_offset |-> 0, target |-> NoTarget]

\* OutputEdge()
NewOutputEdge == [connected |-> FALSE, timestamp_offset |-> 0, data_offset |-> 0]

\* Node::Node(signature)
NewNode(sig) ==
  [ signature |-> sig,
    input_edges |-> << >>,
    output_edges |-> << >>,
    listener_offsets |-> << >>,
    timestamp_offset |-> 0,
    inserted |-> FALSE,
    visited |-> FALSE ]

\* Graph::Graph(name).  output_buffer_size_ has no initializer.
NewGraph ==
  [ nodes |-> << >>,
    sorted_nodes |-> << >>,
    input_buffer |-> [size |-> 0, constructed |-> {}, values |-> << >>],
    output_buffer_size |-> "indeterminate",
    nodes_finalized |-> FALSE ]

\* InputEdge::SetTarget
SetTarget(edge, n, o) ==
  [edge EXCEPT !.connected = TRUE,
               !.target = [node_index |-> n, edge_index |-> o]]

\* Graph::AddNode, without its assert
AddNodeOp(g, sig) == [g EXCEPT !.nodes = Append(@, NewNode(sig))]

\* node->input_edges().push_back(edge) on the node AddNode returned
PushEdgeOp(g, edge) ==
  [g EXCEPT !.nodes[Len(g.nodes)].input_edges = Append(@, edge)]

SigOf(node) == Signatures[node.signature]

\* GetInputEdgeType
GetInputEdgeType(node, i) == SigOf(node).input_parameters[i]

\* GetOutputEdgeType
GetOutputEdgeType(node, i) == SigOf(node).output_parameters[i]

\* OutputEdgeTarget::GetTargetNode asserts the node index; the edge index is
\* used unchecked.  A graph whose targets are in range.
TargetsInRange(ns) ==
  \A n \in 1..Len(ns) : \A j \in 1..Len(ns[n].input_edges) :
    LET e == ns[n].input_edges[j] IN
      e.connected =>
        /\ e.target.node_index \in 1..Len(ns)
        /\ e.target.edge_index \in
             1..Len(SigOf(ns[e.target.node_index]).output_parameters)

----------------------------------------------------------------------------
(* Graph::FinalizeNodes *)

\* Align: (ptr + alignment - 1) & ~(alignment - 1), alignment a power of two
Align(ptr, alignment) == ((ptr + alignment - 1) \div alignment) * alignment

\* mutant: the object is placed where the last one ended
AdvanceOffset_Unaligned(offset, size, alignment) ==
  [result |-> offset, offset |-> offset + size]

\* AdvanceOffset: [result, offset']
AdvanceOffset(offset, size, alignment) ==
  LET result == Align(offset, alignment)
  IN  [result |-> result, offset |-> result + size]

\* vector::resize on output_edges
Resize(seq, n, fill) ==
  [i \in 1..n |-> IF i <= Len(seq) THEN seq[i] ELSE fill]

\* mutant: the output edges a node is given are connected from the start
ResizeOutputEdges_Connected(ns) ==
  [n \in 1..Len(ns) |->
     [ns[n] EXCEPT !.output_edges =
        Resize(@, Len(SigOf(ns[n]).output_parameters),
               [NewOutputEdge EXCEPT !.connected = TRUE])]]

\* first loop of FinalizeNodes: give each node its output edges
ResizeOutputEdges(ns) ==
  [n \in 1..Len(ns) |->
     [ns[n] EXCEPT !.output_edges =
        Resize(@, Len(SigOf(ns[n]).output_parameters), NewOutputEdge)]]

\* mutant: an extra input edge goes unnoticed while it is left unconnected
EdgeCountMismatch_FewerOnly(node) ==
  \/ Len(SigOf(node).input_parameters) > Len(node.input_edges)
  \/ \E j \in 1..Len(node.input_edges) :
       /\ j > Len(SigOf(node).input_parameters)
       /\ node.input_edges[j].connected

\* the edge-count test of FinalizeNodes:
\* signature->input_parameters().size() != node->input_edges().size()
EdgeCountMismatch(node) ==
  Len(SigOf(node).input_parameters) # Len(node.input_edges)

\* second loop of FinalizeNodes, from node i, input j on: checks the edge
\* count, marks targeted outputs connected, assigns default-value offsets.
RECURSIVE MarkInputEdges(_, _, _, _)
MarkInputEdges(ns, cur, i, j) ==
  IF i > Len(ns) THEN [ok |-> TRUE, nodes |-> ns, offset |-> cur]
  ELSE
    LET node == ns[i]
        sig  == SigOf(node)
    IN
    IF EdgeCountMismatch(node)
      THEN [ok |-> FALSE, nodes |-> ns, offset |-> cur]
    ELSE IF j > Len(sig.input_parameters)
      THEN MarkInputEdges(ns, cur, i + 1, 1)
    ELSE
      LET edge == node.input_edges[j] IN
      IF edge.connected
        THEN MarkInputEdges(
               [ns EXCEPT ![edge.target.node_index]
                            .output_edges[edge.target.edge_index]
                            .connected = TRUE],
               cur, i, j + 1)
        ELSE
          LET type == Types[sig.input_parameters[j]]
              adv  == AdvanceOffset(cur, type.size, type.alignment)
          IN  MarkInputEdges(
                [ns EXCEPT ![i].input_edges[j].data_offset = adv.result],
                adv.offset, i, j + 1)

\* third loop of FinalizeNodes: the default values placement-new constructs
DefaultValues(ns) ==
  { <<n, j>> \in UNION { {n} \X (1..Len(SigOf(ns[n]).input_parameters)) :
                           n \in 1..Len(ns) } :
      /\ ~ ns[n].input_edges[j].connected
      /\ Types[GetInputEdgeType(ns[n], j)].size > 0 }

\* input_buffer_ after Initialize(size) and the placement-new loop: the
\* constructed defaults (as <<node, input>>) and, by byte offset, their
\* values; int() is 0
DefaultBuffer(ns, size) ==
  [ size |-> size,
    constructed |-> DefaultValues(ns),
    values |-> [off \in { ns[nj[1]].input_edges[nj[2]].data_offset :
                            nj \in DefaultValues(ns) } |-> 0] ]

\* fourth loop, inner loop over the outputs of node i from output j on
RECURSIVE LayoutOutputs(_, _, _, _)
LayoutOutputs(ns, cur, i, j) ==
  IF j > Len(SigOf(ns[i]).output_parameters)
    THEN [nodes |-> ns, offset |-> cur]
  ELSE IF ns[i].output_edges[j].connected
    THEN
      LET type == Types[GetOutputEdgeType(ns[i], j)]
          ts   == AdvanceOffset(cur, kTimestampSize, kTimestampSize)
          data == AdvanceOffset(ts.offset, type.size, type.alignment)
      IN  LayoutOutputs(
            [ns EXCEPT ![i].output_edges[j].timestamp_offset = ts.result,
                       ![i].output_edges[j].data_offset = data.result],
            data.offset, i, j + 1)
  ELSE LayoutOutputs(ns, cur, i, j + 1)

\* fourth loop, inner loop over the listeners of node i from listener j on
RECURSIVE LayoutListeners(_, _, _, _)
LayoutListeners(ns, cur, i, j) ==
  IF j > Len(SigOf(ns[i]).event_listeners)
    THEN [nodes |-> ns, offset |-> cur]
  ELSE
    LET adv == AdvanceOffset(cur, kListenerSize, kListenerAlign)
    IN  LayoutListeners(
          [ns EXCEPT ![i].listener_offsets = Append(@, adv.result)],
          adv.offset, i, j + 1)

\* fourth loop of FinalizeNodes: the per-instance buffer layout, from node i
RECURSIVE LayoutNodes(_, _, _)
LayoutNodes(ns, cur, i) ==
  IF i > Len(ns) THEN [nodes |-> ns, offset |-> cur]
  ELSE
    LET ts   == AdvanceOffset(cur, kTimestampSize, kTimestampSize)
        ns1  == [ns EXCEPT ![i].timestamp_offset = ts.result]
        outs == LayoutOutputs(ns1, ts.offset, i, 1)
        lis  == LayoutListeners(outs.nodes, outs.offset, i, 1)
    IN  LayoutNodes(lis.nodes, lis.offset, i + 1)

\* mutant: a payload-free (void) output is taken to fit any input
TypeMismatch_VoidFitsAll(input_type, output_type) ==
  Types[output_type].size > 0 /\ input_type # output_type

\* the type test of InsertNode: input_type != output_type (Type identity)
TypeMismatch(input_type, output_type) == input_type # output_type

\* Graph::InsertNode(node n); InsertNodeEdges continues it at input edge i.
\* st = [ok, nodes, sorted]
RECURSIVE InsertNodeEdges(_, _, _)

\* mutant: a node is inserted whether or not it has been inserted before
InsertNode_Again(st, n) ==
  InsertNodeEdges([st EXCEPT !.nodes[n].visited = TRUE], n, 1)

\* mutant: the node is flagged inserted, not visited, before its
\* dependencies are walked
InsertNode_InsertedFirst(st, n) ==
  IF ~ st.nodes[n].inserted
    THEN InsertNodeEdges([st EXCEPT !.nodes[n].inserted = TRUE], n, 1)
    ELSE [st EXCEPT !.ok = TRUE]

InsertNode(st, n) ==
  IF ~ st.nodes[n].inserted
    THEN InsertNodeEdges([st EXCEPT !.nodes[n].visited = TRUE], n, 1)
    ELSE [st EXCEPT !.ok = TRUE]

InsertNodeEdges(st, n, i) ==
  LET node == st.nodes[n] IN
  IF i > Len(node.input_edges)
    THEN [ok |-> TRUE,
          nodes |-> [st.nodes EXCEPT ![n].visited = FALSE,
                                     ![n].inserted = TRUE],
          sorted |-> Append(st.sorted, n)]
  ELSE
    LET edge == node.input_edges[i] IN
    IF ~ edge.connected THEN InsertNodeEdges(st, n, i + 1)
    ELSE
      LET d           == edge.target.node_index
          dependency  == st.nodes[d]
          input_type  == GetInputEdgeType(node, i)
          output_type == GetOutputEdgeType(dependency, edge.target.edge_index)
      IN
      IF TypeMismatch(input_type, output_type) THEN [st EXCEPT !.ok = FALSE]
      ELSE IF dependency.visited THEN [st EXCEPT !.ok = FALSE]
      ELSE IF ~ dependency.inserted
        THEN LET sub == InsertNode(st, d)
             IN  IF ~ sub.ok THEN sub ELSE InsertNodeEdges(sub, n, i + 1)
      ELSE InsertNodeEdges(st, n, i + 1)

\* Graph::SortGraphNodes, from node i on
RECURSIVE SortGraphNodes(_, _)
SortGraphNodes(st, i) ==
  IF i > Len(st.nodes) THEN [st EXCEPT !.ok = TRUE]
  ELSE LET r == InsertNode(st, i)
       IN  IF ~ r.ok THEN r ELSE SortGraphNodes(r, i + 1)

\* mutant: validation failures leave the graph as it was given
FinalizeNodes_Transactional(g) ==
  LET mark == MarkInputEdges(ResizeOutputEdges(g.nodes), 0, 1, 1)
      lay  == LayoutNodes(mark.nodes, 0, 1)
      sort == SortGraphNodes([ok |-> TRUE, nodes |-> lay.nodes,
                              sorted |-> g.sorted_nodes], 1)
  IN
  IF ~ mark.ok \/ ~ sort.ok
    THEN [result |-> FALSE, graph |-> g]
    ELSE [result |-> TRUE,
          graph |-> [g EXCEPT !.nodes = sort.nodes,
                              !.sorted_nodes = sort.sorted,
                              !.input_buffer =
                                 DefaultBuffer(mark.nodes, mark.offset),
                              !.output_buffer_size = lay.offset,
                              !.nodes_finalized = TRUE]]

\* mutant: nodes_finalized_ is set before the sort has passed
FinalizeNodes_FlagBeforeSort(g) ==
  LET mark == MarkInputEdges(ResizeOutputEdges(g.nodes), 0, 1, 1)
      lay  == LayoutNodes(mark.nodes, 0, 1)
      sort == SortGraphNodes([ok |-> TRUE, nodes |-> lay.nodes,
                              sorted |-> g.sorted_nodes], 1)
  IN
  IF ~ mark.ok
    THEN [result |-> FALSE, graph |-> [g EXCEPT !.nodes = mark.nodes]]
    ELSE [result |-> sort.ok,
          graph |-> [g EXCEPT !.nodes = sort.nodes,
                              !.sorted_nodes = sort.sorted,
                              !.input_buffer =
                                 DefaultBuffer(mark.nodes, mark.offset),
                              !.output_buffer_size = lay.offset,
                              !.nodes_finalized = TRUE]]

\* Graph::FinalizeNodes: [result, graph]
FinalizeNodes(g) ==
  LET ns0  == ResizeOutputEdges(g.nodes)
      mark == MarkInputEdges(ns0, 0, 1, 1)
  IN
  IF ~ mark.ok
    THEN [result |-> FALSE, graph |-> [g EXCEPT !.nodes = mark.nodes]]
  ELSE
    LET inbuf == DefaultBuffer(mark.nodes, mark.offset)
        lay   == LayoutNodes(mark.nodes, 0, 1)
        sort  == SortGraphNodes([ok |-> TRUE, nodes |-> lay.nodes,
                                 sorted |-> g.sorted_nodes], 1)
        g1    == [g EXCEPT !.nodes = sort.nodes,
                           !.sorted_nodes = sort.sorted,
                           !.input_buffer = inbuf,
                           !.output_buffer_size = lay.offset]
    IN
    IF ~ sort.ok
      THEN [result |-> FALSE, graph |-> g1]
      ELSE [result |-> TRUE, graph |-> [g1 EXCEPT !.nodes_finalized = TRUE]]

----------------------------------------------------------------------------
(* GraphState, NodeArguments, events: operators *)

Broadcasters == {"B1", "B2"}

\* a NodeEventListener is named by the GraphState and the byte offset of the
\* per-instance buffer it lives at; this one names no listener
NoListener == [gs |-> 0, offset |-> 0]

\* The greatest Timestamp, 2^32 - 1 (0xFFFFFFFF).  A uint32_t value of 2^31
\* or more is written as the 32-bit integer with the same bits, so that
\* 0xFFFFFFFF is -1 and ++ on it gives 0.
kLastTimestamp == -1

\* ++timestamp_ on a uint32_t
NextTimestamp(t) == t + 1

\* a < b on uint32_t values
TimestampLess(a, b) == IF (a < 0) = (b < 0) THEN a < b ELSE b < 0

Range(seq) == { seq[i] : i \in 1..Len(seq) }

PositionOf(seq, x) == CHOOSE i \in 1..Len(seq) : seq[i] = x

\* the starting offsets FinalizeNodes handed out in the per-instance buffer
TimestampOffsets(g) ==
  { g.nodes[n].timestamp_offset : n \in 1..Len(g.nodes) } \cup
  { g.nodes[no[1]].output_edges[no[2]].timestamp_offset :
      no \in { x \in UNION { {n} \X (1..Len(g.nodes[n].output_edges)) :
                              n \in 1..Len(g.nodes) } :
                 g.nodes[x[1]].output_edges[x[2]].connected } }

ListenerOffsets(g) ==
  UNION { Range(g.nodes[n].listener_offsets) : n \in 1..Len(g.nodes) }

\* the offsets of the values of the connected outputs that have one
DataOffsets(g) ==
  { g.nodes[no[1]].output_edges[no[2]].data_offset :
      no \in { x \in UNION { {n} \X (1..Len(g.nodes[n].output_edges)) :
                              n \in 1..Len(g.nodes) } :
                 /\ g.nodes[x[1]].output_edges[x[2]].connected
                 /\ Types[GetOutputEdgeType(g.nodes[x[1]], x[2])].size > 0 } }

\* MemoryBuffer::Initialize(size): vector::resize value-initializes, so every
\* slot reads as zero
ZeroBuffer(g) ==
  [off \in TimestampOffsets(g) \cup DataOffsets(g) \cup ListenerOffsets(g) |-> 0]

\* NodeEventListener(graph_state, event_id)
NewListener(s, event_id) ==
  [graph_state |-> s, timestamp |-> 0, event_id |-> event_id]

\* first loop of GraphState::Initialize for instance s: Timestamp(0) and a
\* default-constructed value (int() is 0) on each connected output, a
\* NodeEventListener at each listener offset
ConstructBuffer(g, s) ==
  LET outs == { g.nodes[no[1]].output_edges[no[2]].timestamp_offset :
                  no \in { x \in UNION { {n} \X (1..Len(g.nodes[n].output_edges)) :
                                          n \in 1..Len(g.nodes) } :
                             g.nodes[x[1]].output_edges[x[2]].connected } }
      EventAt(off) ==
        LET nl == CHOOSE x \in UNION { {n} \X (1..Len(g.nodes[n].listener_offsets)) :
                                        n \in 1..Len(g.nodes) } :
                    g.nodes[x[1]].listener_offsets[x[2]] = off
        IN  SigOf(g.nodes[nl[1]]).event_listeners[nl[2]]
      zero == ZeroBuffer(g)
  IN  [off \in DOMAIN zero |->
         IF off \in ListenerOffsets(g) THEN NewListener(s, EventAt(off))
         ELSE IF off \in outs \cup DataOffsets(g) THEN 0
         ELSE zero[off]]

\* OutputEdgeTarget::GetTargetEdge
GetTargetEdge(g, target) ==
  g.nodes[target.node_index].output_edges[target.edge_index]

\* mutant: the listeners' timestamps are not looked at
IsDirty_NoListeners(g, state, n) ==
  LET node == g.nodes[n] IN
  \/ state.output_buffer[node.timestamp_offset] = state.timestamp
  \/ \E i \in 1..Len(node.input_edges) :
       /\ node.input_edges[i].connected
       /\ state.output_buffer[
            GetTargetEdge(g, node.input_edges[i].target).timestamp_offset]
            = state.timestamp

\* GraphState::IsDirty(node n) on instance record state
IsDirty(g, state, n) ==
  LET node == g.nodes[n] IN
  \/ state.output_buffer[node.timestamp_offset] = state.timestamp
  \/ \E i \in 1..Len(node.listener_offsets) :
       state.output_buffer[node.listener_offsets[i]].timestamp = state.timestamp
  \/ \E i \in 1..Len(node.input_edges) :
       /\ node.input_edges[i].connected
       /\ state.output_buffer[
            GetTargetEdge(g, node.input_edges[i].target).timestamp_offset]
            = state.timestamp

\* mutant: an input that is not connected counts as changed
IsInputDirty_DefaultsDirty(g, buffer, ts, n, i) ==
  LET input_edge == g.nodes[n].input_edges[i] IN
  IF input_edge.connected
    THEN buffer[GetTargetEdge(g, input_edge.target).timestamp_offset] = ts
    ELSE TRUE

\* NodeArguments::IsInputDirty(i), args built with timestamp ts
IsInputDirty(g, buffer, ts, n, i) ==
  LET input_edge == g.nodes[n].input_edges[i] IN
  IF input_edge.connected
    THEN buffer[GetTargetEdge(g, input_edge.target).timestamp_offset] = ts
    ELSE FALSE

\* NodeArguments::IsListenerDirty(i), args built with timestamp ts
IsListenerDirty(g, buffer, ts, n, i) ==
  buffer[g.nodes[n].listener_offsets[i]].timestamp = ts

\* mutant: the instance's buffer is read at the input edge's own offset
GetInput_OwnOffset(g, buffer, n, i) ==
  LET input_edge == g.nodes[n].input_edges[i] IN
  IF Types[GetInputEdgeType(g.nodes[n], i)].size = 0 THEN "void"
  ELSE IF input_edge.connected
    THEN buffer[input_edge.data_offset]
    ELSE g.input_buffer.values[input_edge.data_offset]

\* NodeArguments::GetInput(i): the value of the source output when the
\* input is connected, the graph's default value otherwise.  An input of
\* type void has no value to read.
GetInput(g, buffer, n, i) ==
  LET input_edge == g.nodes[n].input_edges[i] IN
  IF Types[GetInputEdgeType(g.nodes[n], i)].size = 0 THEN "void"
  ELSE IF input_edge.connected
    THEN buffer[GetTargetEdge(g, input_edge.target).data_offset]
    ELSE g.input_buffer.values[input_edge.data_offset]

\* mutant: the value is stored, the timestamp is not
SetOutput_NoStamp(g, buffer, ts, n, o, v) ==
  LET output_edge == g.nodes[n].output_edges[o] IN
  IF ~ output_edge.connected THEN buffer
  ELSE IF Types[GetOutputEdgeType(g.nodes[n], o)].size > 0
    THEN [buffer EXCEPT ![output_edge.data_offset] = v]
  ELSE buffer

\* NodeArguments::SetOutput(o, v), and SetOutput(o) for an output of type
\* void: nothing for an unconnected output, else *timestamp = timestamp_
\* and, when the type has a value, *data = v
SetOutput(g, buffer, ts, n, o, v) ==
  LET output_edge == g.nodes[n].output_edges[o] IN
  IF ~ output_edge.connected THEN buffer
  ELSE IF Types[GetOutputEdgeType(g.nodes[n], o)].size > 0
    THEN [buffer EXCEPT ![output_edge.timestamp_offset] = ts,
                        ![output_edge.data_offset] = v]
  ELSE [buffer EXCEPT ![output_edge.timestamp_offset] = ts]

\* the callback calls SetOutput with v on each output in W
RECURSIVE SetOutputs(_, _, _, _, _, _)
SetOutputs(g, buffer, ts, n, W, v) ==
  IF W = {} THEN buffer
  ELSE LET o == CHOOSE x \in W : TRUE
       IN  SetOutputs(g, SetOutput(g, buffer, ts, n, o, v), ts, n, W \ {o}, v)

\* intrusive_list_node::in_list(): the listener is linked into some list
InList(bc, ref) ==
  \E b \in DOMAIN bc : \E e \in DOMAIN bc[b] : ref \in Range(bc[b][e])

\* intrusive_list_node::remove(): unlink from whatever list holds it
Unlink(bc, ref) ==
  [b \in DOMAIN bc |->
     [e \in DOMAIN bc[b] |-> SelectSeq(bc[b][e], LAMBDA r : r # ref)]]

\* mutant: the listener is appended without leaving the list that holds it
RegisterListener_NoRemove(bc, b, ref, event_id) ==
  LET bc1 == IF event_id \in DOMAIN bc[b] THEN bc
             ELSE [bc EXCEPT ![b] =
                     [e \in DOMAIN bc[b] \cup {event_id} |->
                        IF e \in DOMAIN bc[b] THEN bc[b][e] ELSE << >>]]
  IN  IF ref \in Range(bc1[b][event_id]) THEN bc1
      ELSE [bc1 EXCEPT ![b][event_id] = Append(@, ref)]

\* mutant: the earlier RegisterListener, remove() then push_back()
RegisterListener_AlwaysMove(bc, b, ref, event_id) ==
  LET bc1 == IF event_id \in DOMAIN bc[b] THEN bc
             ELSE [bc EXCEPT ![b] =
                     [e \in DOMAIN bc[b] \cup {event_id} |->
                        IF e \in DOMAIN bc[b] THEN bc[b][e] ELSE << >>]]
  IN  [Unlink(bc1, ref) EXCEPT ![b][event_id] = Append(@, ref)]

\* NodeEventBroadcaster::RegisterListener on broadcaster b; event_id is the
\* listener's event_id()
RegisterListener(bc, b, ref, event_id) ==
  LET bc1 == IF event_id \in DOMAIN bc[b] THEN bc
             ELSE [bc EXCEPT ![b] =
                     [e \in DOMAIN bc[b] \cup {event_id} |->
                        IF e \in DOMAIN bc[b] THEN bc[b][e] ELSE << >>]]
      in_list == InList(bc1, ref)
      found   == ref \in Range(bc1[b][event_id])
      bc2     == IF in_list /\ ~ found THEN Unlink(bc1, ref) ELSE bc1
      in_list2 == in_list /\ found
  IN  IF ~ in_list2
        THEN [bc2 EXCEPT ![b][event_id] = Append(@, ref)]
        ELSE bc2

\* NodeArguments::BindBroadcaster for each listener of node n from listener
\* i on, on instance s
RECURSIVE BindBroadcasters(_, _, _, _, _, _)
BindBroadcasters(g, bc, b, s, n, i) ==
  IF i > Len(g.nodes[n].listener_offsets) THEN bc
  ELSE BindBroadcasters(
         g,
         RegisterListener(bc, b, [gs |-> s, offset |-> g.nodes[n].listener_offsets[i]],
                          SigOf(g.nodes[n]).event_listeners[i]),
         b, s, n, i + 1)

\* the list BroadcastEvent(event_id) walks: empty when find() finds none
ListenerList(bc, b, event_id) ==
  IF event_id \in DOMAIN bc[b] THEN bc[b][event_id] ELSE << >>

\* the list element after ref (++listener_iter), NoListener at end()
NextInList(list, ref) ==
  LET i == PositionOf(list, ref)
  IN  IF i < Len(list) THEN list[i + 1] ELSE NoListener

\* NodeEventListener::MarkDirty
MarkDirty(gstates, ref) ==
  [gstates EXCEPT ![ref.gs].output_buffer[ref.offset].timestamp =
                     gstates[ref.gs].timestamp]

\* what a callback of node n sees of its listeners and inputs, and the
\* SetOutput calls it makes: v on each output in W
Readings(g, state, n, W, v) ==
  [ node |-> n,
    set |-> W,
    value |-> v,
    inputs |->
      [i \in 1..Len(g.nodes[n].input_edges) |->
         GetInput(g, state.output_buffer, n, i)],
    node_dirty |-> state.output_buffer[g.nodes[n].timestamp_offset] = state.timestamp,
    listener_dirty |->
      [i \in 1..Len(g.nodes[n].listener_offsets) |->
         IsListenerDirty(g, state.output_buffer, state.timestamp, n, i)],
    input_dirty |->
      [i \in 1..Len(g.nodes[n].input_edges) |->
         IsInputDirty(g, state.output_buffer, state.timestamp, n, i)] ]

----------------------------------------------------------------------------
(* State *)

VARIABLES
  graph,         \* the Graph
  finalize,      \* result of the FinalizeNodes call: "none", "true", "false"
  pre,           \* the Graph as it was when FinalizeNodes was called
  gs,            \* the GraphState instances
  broadcasters,  \* per broadcaster: event_listener_lists_
  stack,         \* the call stack, innermost call first
  aborted,       \* an assert has failed
  callbacks,     \* history: a node's Initialize or Execute callback has run
  listener,      \* the NodeEventListener the application owns
  counters,      \* per node: the member its behavior object keeps
  set_defaults,  \* history: per input edge, the value last given to
                 \* SetDefaultValue
  destroyed,     \* history: the last destructor that ran, whether its
                 \* object was finalized or initialized, and the destroy
                 \* operations it ran
  last_call,     \* history: the last GetInput or SetOutput call of a
                 \* callback, and what it returned
  modules,       \* ModuleRegistry::modules_
  registered,    \* history: the last call on the registry and its result
  log,           \* what the log function has been given
  loop,          \* the loop counter of main
  loaded_graphs, \* GraphFactory::loaded_graphs_: filename -> Graph object
  loads          \* history: the calls of LoadGraph and of what it calls

vars == <<graph, finalize, pre, gs, broadcasters, stack, aborted, callbacks,
          listener, counters, set_defaults, destroyed, last_call, modules,
          registered, log, loop, loaded_graphs, loads>>

\* the GraphFactory and the history of its calls
factory_vars == <<loaded_graphs, loads>>

\* the registry, and the histories of calls
lib_vars == <<last_call, modules, registered, log, loop, factory_vars>>

\* what the graph callbacks and broadcasts never touch by themselves
app_vars == <<listener, counters, set_defaults, destroyed, lib_vars>>

instance_vars == <<gs, broadcasters, stack, aborted, callbacks,
                   listener, set_defaults, destroyed, lib_vars>>

\* no destructor has run
NoDestruction ==
  [object |-> "none", gs |-> 0, initialized |-> FALSE, calls |-> << >>]

\* no callback has called GetInput or SetOutput
NoCall ==
  [op |-> "none", node |-> 0, index |-> 0, type |-> "", returned |-> FALSE,
   result |-> << >>]

\* nothing has been registered
NoRegistration ==
  [op |-> "none", module |-> "", node |-> "", class |-> "", result |-> FALSE,
   on_register |-> FALSE]

\* the files the application asks the GraphFactory for
Filenames == {"a.bbgraph", "b.bbgraph"}

\* LoadGraph has not been called: per file, the calls of LoadGraph, of the
\* file-load callback and of ParseData; the Graph objects constructed; the
\* file and the result of the last call (<< >> is nullptr)
NoLoads ==
  [ calls |-> [f \in Filenames |-> 0],
    load_file_callback |-> [f \in Filenames |-> 0],
    ParseData |-> [f \in Filenames |-> 0],
    graphs |-> 0,
    filename |-> "",
    result |-> << >> ]

\* a NodeEventListener not constructed yet
NoAppListener == [graph_state |-> 0, timestamp |-> 0, event_id |-> ""]

\* how lists refer to the application's listener of instance s
AppListenerRef(s) == [gs |-> s, offset |-> -1]

GraphStates == 1..NumStates

Values == 1..MaxValue

\* GraphState()
NewGraphState == [graph |-> FALSE, output_buffer |-> << >>, timestamp |-> 0]

InitInstances ==
  /\ gs = [s \in GraphStates |-> NewGraphState]
  /\ broadcasters = [b \in Broadcasters |-> << >>]
  /\ stack = << >>
  /\ aborted = FALSE
  /\ callbacks = FALSE
  /\ listener = NoAppListener
  /\ set_defaults = << >>
  /\ destroyed = NoDestruction
  /\ last_call = NoCall
  /\ modules = << >>
  /\ registered = NoRegistration
  /\ log = << >>
  /\ loop = 0
  /\ loaded_graphs = << >>
  /\ loads = NoLoads

TotalEdges(ns) ==
  LET RECURSIVE Sum(_)
      Sum(i) == IF i = 0 THEN 0 ELSE Len(ns[i].input_edges) + Sum(i - 1)
  IN  Sum(Len(ns))

InitBuild ==
  /\ graph = NewGraph
  /\ counters = << >>
  /\ finalize = "none"
  /\ pre = NewGraph
  /\ InitInstances

\* Graph::AddNode(signature)
AddNode(sig) ==
  /\ finalize = "none"
  /\ ~ graph.nodes_finalized
  /\ Len(graph.nodes) < MaxNodes
  /\ graph' = AddNodeOp(graph, sig)
  /\ counters' = Append(counters, 0)
  /\ UNCHANGED <<finalize, pre, instance_vars>>

\* node->input_edges().push_back(InputEdge()): an input left unconnected
PushInputEdge ==
  /\ finalize = "none"
  /\ Len(graph.nodes) > 0
  /\ TotalEdges(graph.nodes) < MaxEdges
  /\ graph' = PushEdgeOp(graph, NewInputEdge)
  /\ UNCHANGED <<finalize, pre, instance_vars, counters>>

\* push_back(InputEdge()) then back().SetTarget(n, o)
PushConnectedEdge(n, o) ==
  /\ finalize = "none"
  /\ Len(graph.nodes) > 0
  /\ TotalEdges(graph.nodes) < MaxEdges
  /\ graph' = PushEdgeOp(graph, SetTarget(NewInputEdge, n, o))
  /\ UNCHANGED <<finalize, pre, instance_vars, counters>>

\* bool ok = graph->FinalizeNodes()
CallFinalizeNodes ==
  /\ finalize = "none"
  /\ stack = << >> /\ ~ aborted
  /\ TargetsInRange(graph.nodes)
  /\ LET r == FinalizeNodes(graph)
     IN  /\ graph' = r.graph
         /\ finalize' = IF r.result THEN "true" ELSE "false"
  /\ pre' = graph
  /\ UNCHANGED <<instance_vars, counters>>

NextBuild ==
  \/ \E sig \in SigNames : AddNode(sig)
  \/ PushInputEdge
  \/ \E n \in 1..MaxNodes : PushConnectedEdge(n, 1)
  \/ CallFinalizeNodes

SpecBuild == InitBuild /\ [][NextBuild]_vars

----------------------------------------------------------------------------
(* The graphs of the execution specification *)

\* AddNode(sig), then one pushed input edge per entry of wiring: 0 leaves
\* the input unconnected, k connects it to output 0 of node k
RECURSIVE WireNode(_, _, _)
WireNode(g, wiring, i) ==
  IF i > Len(wiring) THEN g
  ELSE WireNode(
         PushEdgeOp(g, IF wiring[i] = 0 THEN NewInputEdge
                       ELSE SetTarget(NewInputEdge, wiring[i], 1)),
         wiring, i + 1)

RECURSIVE BuildGraph(_, _, _)
BuildGraph(g, plan, i) ==
  IF i > Len(plan) THEN g
  ELSE BuildGraph(WireNode(AddNodeOp(g, plan[i][1]), plan[i][2], 1), plan, i + 1)

GraphPlans ==
  { \* CaptureEvent -> CountEvent -> a consumer, as in the event_counter sample
    << <<"Capture", << >> >>, <<"Count", <<1>> >>, <<"Count", <<2>> >> >>,
    \* a chain of three and a node that depends on none of them
    << <<"Capture", << >> >>, <<"Count", <<1>> >>, <<"Count", <<2>> >>,
       <<"Signal", <<0>> >> >>,
    \* two nodes share one dependency, a fourth joins them
    << <<"Capture", << >> >>, <<"Count", <<1>> >>, <<"Count", <<1>> >>,
       <<"Join", <<2, 3>> >> >>,
    \* dependencies added after their dependents
    << <<"Count", <<2>> >>, <<"Join", <<3, 0>> >>, <<"Capture", << >> >> >>,
    \* two listeners for one event in one instance, one for another event
    << <<"Signal", <<0>> >>, <<"Signal", <<1>> >>, <<"Capture", << >> >> >>,
    \* rejected by FinalizeNodes: cycle, type mismatch, edge count
    << <<"Count", <<1>> >> >>,
    << <<"Capture", << >> >>, <<"Signal", <<1>> >> >>,
    << <<"Join", <<0>> >> >> }

ExecGraphs == { BuildGraph(NewGraph, plan, 1) : plan \in GraphPlans }

----------------------------------------------------------------------------
(* GraphState and broadcaster: actions *)

\* A call in progress.  Initialize and Execute: the instance gs, the loop
\* index i, and the listener whose broadcast made the call (caller).
\* BroadcastEvent: the broadcaster, the event id and the loop iterator cur.
\* History of the call: for Initialize and Execute the callbacks run so far
\* (executed) and, for Execute, the connected outputs they set (wrote); for BroadcastEvent the list it
\* found (reached), each instance's Timestamp then (before) and the Execute
\* calls it made per instance (calls).
Frame(op, s, caller, b, event_id, cur) ==
  [ op |-> op, gs |-> s, i |-> 1, caller |-> caller,
    executed |-> << >>, wrote |-> {},
    broadcaster |-> b, event_id |-> event_id, cur |-> cur,
    reached |-> << >>, before |-> << >>, calls |-> << >> ]

Top == stack[1]

Outputs(n) == 1..Len(graph.nodes[n].output_edges)

Init ==
  /\ graph \in ExecGraphs
  /\ counters = [n \in 1..Len(graph.nodes) |-> 0]
  /\ finalize = "none"
  /\ pre = NewGraph
  /\ InitInstances

\* graph_state.Initialize(graph), up to its first callback
CallInitialize(s) ==
  /\ stack = << >> /\ ~ aborted
  /\ ~ gs[s].graph
  /\ \A r \in 1..(s - 1) : gs[r].graph
  /\ IF ~ graph.nodes_finalized
       THEN /\ aborted' = TRUE
            /\ UNCHANGED <<gs, stack>>
       ELSE /\ gs' = [gs EXCEPT ![s].graph = TRUE,
                                ![s].output_buffer = ConstructBuffer(graph, s)]
            /\ stack' = <<Frame("Initialize", s, NoListener, "", "", NoListener)>>
            /\ UNCHANGED aborted
  /\ UNCHANGED <<graph, finalize, pre, broadcasters, callbacks, app_vars>>

\* second loop of GraphState::Initialize: node->base_node()->Initialize(&args).
\* The callback sets the outputs in W and, if bind, binds its listeners to b.
InitializeNode(W, v, bind, b) ==
  /\ stack # << >> /\ Top.op = "Initialize"
  /\ Top.i <= Len(graph.sorted_nodes)
  /\ LET s == Top.gs
         n == graph.sorted_nodes[Top.i]
     IN  /\ W \subseteq Outputs(n)
         /\ gs' = [gs EXCEPT ![s].output_buffer =
                     SetOutputs(graph, @, gs[s].timestamp, n, W, v)]
         /\ broadcasters' = IF bind
                              THEN BindBroadcasters(graph, broadcasters, b, s, n, 1)
                              ELSE broadcasters
         /\ stack' =
              <<[Top EXCEPT
                   !.i = @ + 1,
                   !.executed = Append(@, Readings(graph, gs[s], n, W, v))]>>
              \o Tail(stack)
  /\ callbacks' = TRUE
  /\ UNCHANGED <<graph, finalize, pre, aborted, app_vars>>

\* mutant: Initialize leaves the Timestamp at 0
InitializeEnd_NoAdvance(gstates, s) == gstates

\* end of GraphState::Initialize: ++timestamp_
InitializeEnd(gstates, s) ==
  [gstates EXCEPT ![s].timestamp = NextTimestamp(@)]

\* GraphState::Initialize returns
InitializeReturn ==
  /\ stack # << >> /\ Top.op = "Initialize"
  /\ Top.i > Len(graph.sorted_nodes)
  /\ gs' = InitializeEnd(gs, Top.gs)
  /\ stack' = Tail(stack)
  /\ UNCHANGED <<graph, finalize, pre, broadcasters, aborted, callbacks, app_vars>>

\* graph_state.Execute() called from outside: assert(graph_)
CallExecute(s) ==
  /\ stack = << >> /\ ~ aborted
  /\ IF ~ gs[s].graph
       THEN /\ aborted' = TRUE
            /\ UNCHANGED stack
       ELSE /\ gs[s].timestamp < MaxTimestamp
            /\ stack' = <<Frame("Execute", s, NoListener, "", "", NoListener)>>
            /\ UNCHANGED aborted
  /\ UNCHANGED <<graph, finalize, pre, gs, broadcasters, callbacks, app_vars>>

\* one turn of the loop of GraphState::Execute: if IsDirty(node), the node's
\* Execute callback runs; it adds add to the member of its behavior object
\* and sets the outputs in W to v
ExecuteNode(W, v, add) ==
  /\ stack # << >> /\ Top.op = "Execute"
  /\ Top.i <= Len(graph.sorted_nodes)
  /\ LET s == Top.gs
         n == graph.sorted_nodes[Top.i]
     IN  /\ W \subseteq Outputs(n)
         /\ IF IsDirty(graph, gs[s], n)
              THEN /\ gs' = [gs EXCEPT ![s].output_buffer =
                               SetOutputs(graph, @, gs[s].timestamp, n, W, v)]
                   /\ stack' =
                        <<[Top EXCEPT
                             !.i = @ + 1,
                             !.executed =
                               Append(@, Readings(graph, gs[s], n, W, v)),
                             !.wrote = @ \cup
                               { <<n, o>> : o \in { x \in W :
                                   graph.nodes[n].output_edges[x].connected } }]>>
                        \o Tail(stack)
                   /\ counters' = [counters EXCEPT ![n] = @ + add]
                   /\ callbacks' = TRUE
              ELSE /\ stack' = <<[Top EXCEPT !.i = @ + 1]>> \o Tail(stack)
                   /\ UNCHANGED <<gs, callbacks, counters>>
  /\ UNCHANGED <<graph, finalize, pre, broadcasters, aborted, listener,
                 set_defaults,
                 destroyed, lib_vars>>

\* mutant: the Timestamp is not advanced when the pass ends
ExecuteEnd_NoAdvance(gstates, s) == gstates

\* mutant: one Timestamp counter for all instances
ExecuteEnd_SharedCounter(gstates, s) ==
  [r \in DOMAIN gstates |->
     [gstates[r] EXCEPT !.timestamp = NextTimestamp(@)]]

\* end of GraphState::Execute: ++timestamp_
ExecuteEnd(gstates, s) ==
  [gstates EXCEPT ![s].timestamp = NextTimestamp(@)]

\* GraphState::Execute returns; when BroadcastEvent called it, its loop
\* moves on (++listener_iter)
ExecuteReturn ==
  /\ stack # << >> /\ Top.op = "Execute"
  /\ Top.i > Len(graph.sorted_nodes)
  /\ gs' = ExecuteEnd(gs, Top.gs)
  /\ stack' =
       IF Len(stack) > 1 /\ stack[2].op = "Broadcast"
         THEN <<[stack[2] EXCEPT !.cur =
                   NextInList(ListenerList(broadcasters, stack[2].broadcaster,
                                           stack[2].event_id), @)]>>
              \o Tail(Tail(stack))
         ELSE Tail(stack)
  /\ UNCHANGED <<graph, finalize, pre, broadcasters, aborted, callbacks, app_vars>>

\* how many listeners of the list live in instance s
ListenersOf(list, s) == Cardinality({ i \in 1..Len(list) : list[i].gs = s })

\* broadcaster.BroadcastEvent(event_id) called from outside: find the list,
\* listener_iter = begin()
CallBroadcastEvent(b, event_id) ==
  /\ stack = << >> /\ ~ aborted
  /\ LET list == ListenerList(broadcasters, b, event_id) IN
       /\ \A s \in GraphStates :
            gs[s].timestamp + ListenersOf(list, s) <= MaxTimestamp
       /\ stack' =
            <<[Frame("Broadcast", 0, NoListener, b, event_id,
                     IF list = << >> THEN NoListener ELSE list[1])
                 EXCEPT !.reached = list,
                        !.before = [s \in GraphStates |-> gs[s].timestamp],
                        !.calls = [s \in GraphStates |-> 0]]>>
  /\ UNCHANGED <<graph, finalize, pre, gs, broadcasters, aborted, callbacks,
                 app_vars>>

\* NodeEventListener::MarkDirty on the listener the application owns
MarkAppListenerDirty(lis, gstates) ==
  [lis EXCEPT !.timestamp = gstates[lis.graph_state].timestamp]

\* mutant: the listener is stamped, its GraphState is not executed
BroadcastToListener_MarkOnly(gstates, stk, ref) ==
  [ gs |-> IF ref.offset = -1 THEN gstates ELSE MarkDirty(gstates, ref),
    stack |-> <<[stk[1] EXCEPT !.cur =
                   NextInList(ListenerList(broadcasters, stk[1].broadcaster,
                                           stk[1].event_id), @)]>> \o Tail(stk) ]

\* body of the loop of BroadcastEvent for the listener ref:
\* listener_iter->MarkDirty(); listener_iter->graph_state()->Execute().
\* The listener is in an instance's buffer or is the application's (whose
\* stamp BroadcastStep keeps).
BroadcastToListener(gstates, stk, ref) ==
  [ gs |-> IF ref.offset = -1 THEN gstates ELSE MarkDirty(gstates, ref),
    stack |-> <<Frame("Execute", ref.gs, ref, "", "", NoListener),
                [stk[1] EXCEPT !.calls[ref.gs] = @ + 1]>> \o Tail(stk) ]

\* one turn of the loop of BroadcastEvent
BroadcastStep ==
  /\ stack # << >> /\ Top.op = "Broadcast"
  /\ Top.cur # NoListener
  /\ LET r == BroadcastToListener(gs, stack, Top.cur) IN
       /\ gs' = r.gs
       /\ stack' = r.stack
  /\ listener' = IF Top.cur.offset = -1
                   THEN MarkAppListenerDirty(listener, gs)
                   ELSE listener
  /\ UNCHANGED <<graph, finalize, pre, broadcasters, aborted, callbacks,
                 counters, set_defaults,
                 destroyed, lib_vars>>

\* BroadcastEvent returns: listener_iter == end()
BroadcastReturn ==
  /\ stack # << >> /\ Top.op = "Broadcast"
  /\ Top.cur = NoListener
  /\ stack' = Tail(stack)
  /\ UNCHANGED <<graph, finalize, pre, gs, broadcasters, aborted, callbacks,
                 app_vars>>

\* one turn of the loop of GraphState::Execute on a dirty node whose Execute
\* callback sets the outputs in W to v and then calls
\* b->BroadcastEvent(event_id).  The loop of Execute goes on (at i + 1) when
\* the broadcast has returned.  When the calls nest deeper than the stack
\* allows the program dies in the call that does not fit ("Overflow"), and
\* no call on the stack goes on or returns.
ExecuteNodeBroadcast(W, v, b, event_id) ==
  /\ stack # << >> /\ Top.op = "Execute" /\ ~ aborted
  /\ Top.i <= Len(graph.sorted_nodes)
  /\ LET s    == Top.gs
         n    == graph.sorted_nodes[Top.i]
         list == ListenerList(broadcasters, b, event_id)
     IN  /\ W \subseteq Outputs(n)
         /\ IsDirty(graph, gs[s], n)
         /\ IF Len(stack) + 2 > MaxDepth
              THEN /\ aborted' = TRUE
                   /\ stack' =
                        <<Frame("Overflow", 0, NoListener, b, event_id,
                                NoListener)>> \o stack
                   /\ UNCHANGED <<gs, callbacks>>
              ELSE /\ gs' = [gs EXCEPT ![s].output_buffer =
                               SetOutputs(graph, @, gs[s].timestamp, n, W, v)]
                   /\ stack' =
                        <<[Frame("Broadcast", 0, NoListener, b, event_id,
                                 IF list = << >> THEN NoListener ELSE list[1])
                             EXCEPT !.reached = list,
                                    !.before = [r \in GraphStates |-> gs[r].timestamp],
                                    !.calls = [r \in GraphStates |-> 0]],
                          [Top EXCEPT
                             !.i = @ + 1,
                             !.executed =
                               Append(@, Readings(graph, gs[s], n, W, v)),
                             !.wrote = @ \cup
                               { <<n, o>> : o \in { x \in W :
                                   graph.nodes[n].output_edges[x].connected } }]>>
                        \o Tail(stack)
                   /\ callbacks' = TRUE
                   /\ UNCHANGED aborted
  /\ UNCHANGED <<graph, finalize, pre, broadcasters, app_vars>>

\* one turn of the loop of GraphState::Execute on a dirty node with listeners
\* whose Execute callback binds them again, as OnCollisionNode::Execute does
\* by calling Initialize(args): args->BindBroadcaster(i, b) for each listener,
\* then the outputs in W are set to v.  last_call keeps the instance and its
\* Timestamp at the call, and whether the first listener was in b's list.
ExecuteNodeBind(W, v, b) ==
  /\ stack # << >> /\ Top.op = "Execute" /\ ~ aborted
  /\ Top.i <= Len(graph.sorted_nodes)
  /\ LET s   == Top.gs
         n   == graph.sorted_nodes[Top.i]
         ref == [gs |-> s, offset |-> graph.nodes[n].listener_offsets[1]]
     IN  /\ W \subseteq Outputs(n)
         /\ Len(graph.nodes[n].listener_offsets) > 0
         /\ IsDirty(graph, gs[s], n)
         /\ broadcasters' = BindBroadcasters(graph, broadcasters, b, s, n, 1)
         /\ gs' = [gs EXCEPT ![s].output_buffer =
                     SetOutputs(graph, @, gs[s].timestamp, n, W, v)]
         /\ stack' =
              <<[Top EXCEPT
                   !.i = @ + 1,
                   !.executed = Append(@, Readings(graph, gs[s], n, W, v)),
                   !.wrote = @ \cup
                     { <<n, o>> : o \in { x \in W :
                         graph.nodes[n].output_edges[x].connected } }]>>
              \o Tail(stack)
         /\ last_call' =
              [op |-> "BindBroadcaster", node |-> n, index |-> 1, type |-> b,
               returned |->
                 ref \in Range(ListenerList(broadcasters, b,
                                 SigOf(graph.nodes[n]).event_listeners[1])),
               result |-> <<s, gs[s].timestamp>>]
  /\ callbacks' = TRUE
  /\ UNCHANGED <<graph, finalize, pre, aborted, listener, counters,
                 set_defaults, destroyed, modules, registered, log, loop, factory_vars>>

\* Graph::SetDefaultValue<EdgeType>(node_index, edge_index, value) with
\* EdgeType the type named type: [aborted, graph].  The indices and the type
\* are checked; the value goes to input_edge.data_offset(), which is 0 on an
\* edge that is connected; GetObject asserts a non-empty buffer and an
\* offset inside it.
SetDefaultValue(g, n, e, type, v) ==
  IF ~ g.nodes_finalized THEN [aborted |-> TRUE, graph |-> g]
  ELSE IF n > Len(g.nodes) THEN [aborted |-> FALSE, graph |-> g]
  ELSE IF e > Len(g.nodes[n].input_edges) THEN [aborted |-> FALSE, graph |-> g]
  ELSE IF type # GetInputEdgeType(g.nodes[n], e)
    THEN [aborted |-> FALSE, graph |-> g]
  ELSE
    LET offset == g.nodes[n].input_edges[e].data_offset IN
    IF ~ (g.input_buffer.size > 0 /\ offset < g.input_buffer.size)
      THEN [aborted |-> TRUE, graph |-> g]
      ELSE [aborted |-> FALSE,
            graph |-> [g EXCEPT !.input_buffer.values[offset] = v]]

\* graph->SetDefaultValue<int>(n - 1, e - 1, v), called by the application;
\* set_defaults keeps the last value stored for each unconnected input
CallSetDefaultValue(n, e, v) ==
  /\ stack = << >> /\ ~ aborted
  /\ LET r == SetDefaultValue(graph, n, e, "Int", v) IN
       /\ graph' = r.graph
       /\ aborted' = r.aborted
       /\ set_defaults' =
            IF /\ ~ r.aborted
               /\ n <= Len(graph.nodes)
               /\ e <= Len(graph.nodes[n].input_edges)
               /\ GetInputEdgeType(graph.nodes[n], e) = "Int"
               /\ ~ graph.nodes[n].input_edges[e].connected
              THEN (<<n, e>> :> v) @@ set_defaults
              ELSE set_defaults
  /\ UNCHANGED <<finalize, pre, gs, broadcasters, stack, callbacks, listener,
                 counters, destroyed, lib_vars>>

\* graph->SetDefaultValue<int>(n - 1, e - 1, v), the call kept in last_call
SetDefaultValueCall(n, e, v) ==
  /\ stack = << >> /\ ~ aborted
  /\ LET r == SetDefaultValue(graph, n, e, "Int", v) IN
       /\ graph' = r.graph
       /\ aborted' = r.aborted
  /\ last_call' = [op |-> "SetDefaultValue", node |-> n, index |-> e,
                   type |-> "Int", returned |-> FALSE, result |-> <<v>>]
  /\ UNCHANGED <<finalize, pre, gs, broadcasters, stack, callbacks, listener,
                 counters, set_defaults, destroyed, modules, registered, log,
                 loop, factory_vars>>

\* NodeEventListener listener(&graph_state, event_id) in the application
NewAppListener(s, event_id) ==
  /\ stack = << >> /\ ~ aborted
  /\ listener = NoAppListener
  /\ gs[s].graph
  /\ listener' = [graph_state |-> s, timestamp |-> 0, event_id |-> event_id]
  /\ UNCHANGED <<graph, finalize, pre, gs, broadcasters, stack, aborted,
                 callbacks, counters, set_defaults,
                 destroyed, lib_vars>>

\* broadcaster.RegisterListener(&listener) in the application
RegisterAppListener(b) ==
  /\ stack = << >> /\ ~ aborted
  /\ listener # NoAppListener
  /\ broadcasters' =
       RegisterListener(broadcasters, b, AppListenerRef(listener.graph_state),
                        listener.event_id)
  /\ UNCHANGED <<graph, finalize, pre, gs, stack, aborted, callbacks,
                 listener, counters, set_defaults,
                 destroyed, lib_vars>>

\* graph_state.Execute() called again and again with nothing marked in
\* between, until the Timestamp is 2^32 - 1: every stamp of the instance is
\* below the Timestamp, so each pass finds no node dirty, runs no callback
\* and ends with ++timestamp_
ExecuteUnmarked(s) ==
  /\ stack = << >> /\ ~ aborted
  /\ gs[s].graph
  /\ gs[s].timestamp \in 1..MaxTimestamp
  /\ \A off \in TimestampOffsets(graph) :
       gs[s].output_buffer[off] \in 0..(gs[s].timestamp - 1)
  /\ \A off \in ListenerOffsets(graph) :
       gs[s].output_buffer[off].timestamp \in 0..(gs[s].timestamp - 1)
  /\ gs' = [gs EXCEPT ![s].timestamp = kLastTimestamp]
  /\ UNCHANGED <<graph, finalize, pre, broadcasters, stack, aborted,
                 callbacks, app_vars>>

\* mutant: only the index is verified
VerifyInputPreconditions_IndexOnly(node, argument_index, requested_type) ==
  argument_index \in 1..Len(node.input_edges)

\* NodeArguments::VerifyInputPreconditions: TRUE when neither assert(0) is
\* reached
VerifyInputPreconditions(node, argument_index, requested_type) ==
  /\ argument_index \in 1..Len(node.input_edges)
  /\ requested_type = GetInputEdgeType(node, argument_index)

\* NodeArguments::VerifyOutputPreconditions
VerifyOutputPreconditions(node, argument_index, requested_type) ==
  /\ argument_index \in 1..Len(node.output_edges)
  /\ requested_type = GetOutputEdgeType(node, argument_index)

\* what a call of op on NodeArguments gives back: GetInput<T> returns a
\* pointer to a value (to nothing readable when T is void), SetOutput
\* returns void
CallRecord(op, n, argument_index, requested_type, ok, buffer) ==
  [ op |-> op, node |-> n, index |-> argument_index, type |-> requested_type,
    returned |-> ok,
    result |->
      IF ok /\ op = "GetInput" /\ Types[requested_type].size > 0
           /\ argument_index \in 1..Len(graph.nodes[n].input_edges)
           /\ Types[GetInputEdgeType(graph.nodes[n], argument_index)].size > 0
        THEN <<GetInput(graph, buffer, n, argument_index)>>
        ELSE << >> ]

\* the Execute callback of a dirty node makes one call on its arguments:
\* GetInput<requested_type>(argument_index), or
\* SetOutput<requested_type>(argument_index, v).  A failed precondition is
\* assert(0): the program is aborted inside the call.
ExecuteNodeCall(op, argument_index, requested_type, v) ==
  /\ stack # << >> /\ Top.op = "Execute" /\ ~ aborted
  /\ Top.i <= Len(graph.sorted_nodes)
  /\ LET s == Top.gs
         n == graph.sorted_nodes[Top.i]
         ok == IF op = "GetInput"
                 THEN VerifyInputPreconditions(graph.nodes[n], argument_index,
                                               requested_type)
                 ELSE VerifyOutputPreconditions(graph.nodes[n], argument_index,
                                                requested_type)
         W == IF op = "SetOutput" THEN {argument_index} ELSE {}
     IN  /\ IsDirty(graph, gs[s], n)
         /\ last_call' = CallRecord(op, n, argument_index, requested_type, ok,
                                    gs[s].output_buffer)
         /\ IF ~ ok
              THEN /\ aborted' = TRUE
                   /\ stack' = <<Frame("Assert", s, NoListener, "", "",
                                       NoListener)>> \o stack
                   /\ UNCHANGED gs
              ELSE /\ gs' = [gs EXCEPT ![s].output_buffer =
                               SetOutputs(graph, @, gs[s].timestamp, n, W, v)]
                   /\ stack' =
                        <<[Top EXCEPT
                             !.i = @ + 1,
                             !.executed =
                               Append(@, Readings(graph, gs[s], n, W, v)),
                             !.wrote = @ \cup
                               { <<n, o>> : o \in { x \in W :
                                   graph.nodes[n].output_edges[x].connected } }]>>
                        \o Tail(stack)
                   /\ UNCHANGED aborted
  /\ callbacks' = TRUE
  /\ UNCHANGED <<graph, finalize, pre, broadcasters, listener, counters,
                 set_defaults, destroyed, modules, registered, log, loop, factory_vars>>

\* NodeArguments::VerifyListenerPreconditions: TRUE when assert(0) is not
\* reached
VerifyListenerPreconditions(node, listener_index) ==
  listener_index \in 1..Len(node.listener_offsets)

\* what an index past the end of a vector can do once operator[] has read
\* there: the program dies, or goes on with whatever it read
Outcomes == {"crash", "false", "true"}

\* the Execute callback of a dirty node makes one call on its arguments that
\* takes an index and no type: IsInputDirty(index), IsListenerDirty(index)
\* or BindBroadcaster(index, b).  IsListenerDirty checks its index
\* (assert(0)); IsInputDirty and BindBroadcaster index input_edges() and
\* listener_offsets() unchecked, which past the end is undefined: outcome is
\* what becomes of it, and last_call.type records the read.
ExecuteNodeQuery(op, index, b, outcome) ==
  /\ stack # << >> /\ Top.op = "Execute" /\ ~ aborted
  /\ Top.i <= Len(graph.sorted_nodes)
  /\ LET s == Top.gs
         n == graph.sorted_nodes[Top.i]
         node == graph.nodes[n]
         in_range == IF op = "IsInputDirty"
                       THEN index \in 1..Len(node.input_edges)
                       ELSE VerifyListenerPreconditions(node, index)
         undefined == ~ in_range /\ op # "IsListenerDirty"
         dies == ~ in_range /\ (op = "IsListenerDirty" \/ outcome = "crash")
         answer ==
           IF op = "IsInputDirty"
             THEN IF in_range
                    THEN IsInputDirty(graph, gs[s].output_buffer,
                                      gs[s].timestamp, n, index)
                    ELSE outcome = "true"
           ELSE IF op = "IsListenerDirty"
             THEN in_range /\ IsListenerDirty(graph, gs[s].output_buffer,
                                              gs[s].timestamp, n, index)
           ELSE FALSE
     IN  /\ IsDirty(graph, gs[s], n)
         /\ in_range => outcome = "false"
         /\ (~ in_range /\ op # "IsInputDirty") => outcome # "true"
         /\ last_call' =
              [op |-> op, node |-> n, index |-> index,
               type |-> IF undefined THEN "undefined" ELSE "",
               returned |-> ~ dies,
               result |-> IF dies \/ op = "BindBroadcaster" THEN << >>
                          ELSE <<IF answer THEN 1 ELSE 0>>]
         /\ broadcasters' =
              IF op = "BindBroadcaster" /\ in_range
                THEN RegisterListener(broadcasters, b,
                       [gs |-> s, offset |-> node.listener_offsets[index]],
                       SigOf(node).event_listeners[index])
                ELSE broadcasters
         /\ IF dies
              THEN /\ aborted' = TRUE
                   /\ stack' = <<Frame("Assert", s, NoListener, "", "",
                                       NoListener)>> \o stack
              ELSE /\ stack' =
                        <<[Top EXCEPT
                             !.i = @ + 1,
                             !.executed =
                               Append(@, Readings(graph, gs[s], n, {}, 0))]>>
                        \o Tail(stack)
                   /\ UNCHANGED aborted
  /\ callbacks' = TRUE
  /\ UNCHANGED <<graph, finalize, pre, gs, listener, counters,
                 set_defaults, destroyed, modules, registered, log, loop, factory_vars>>

\* the names the application registers modules and nodes under
ModuleNames == {"sample", "math"}

NodeNames == {"capture_event", "count_event"}

\* the classes the application registers: CaptureEvent and CountEvent
NodeClasses == {"Capture", "Count"}

\* Module(module_name)
NewModule(module_name) == [module_name |-> module_name, signatures |-> << >>]

\* NodeSignature(&module_name_, node_name, constructor, destructor), the
\* constructor being the one of class
NewNodeSignature(module_name, node_name, class) ==
  [ module_name |-> module_name, node_name |-> node_name,
    constructor |-> class,
    input_parameters |-> << >>, output_parameters |-> << >>,
    event_listeners |-> << >> ]

\* DerivedNode::OnRegister(signature): AddInput, AddOutput and AddListener
\* for what the class declares
OnRegister(class, signature) ==
  [signature EXCEPT
     !.input_parameters = @ \o Signatures[class].input_parameters,
     !.output_parameters = @ \o Signatures[class].output_parameters,
     !.event_listeners = @ \o Signatures[class].event_listeners]

\* ModuleRegistry::GetModule: the module, or nothing for nullptr
GetModule(mods, module_name) ==
  IF module_name \in DOMAIN mods THEN <<mods[module_name]>> ELSE << >>

\* Module::GetNodeSignature: the signature, or nothing for nullptr
GetNodeSignature(module, node_name) ==
  IF node_name \in DOMAIN module.signatures
    THEN <<module.signatures[node_name]>> ELSE << >>

\* mutant: a second registration replaces the module
RegisterModuleOp_Replace(mods, module_name) ==
  [ modules |-> [n \in DOMAIN mods \cup {module_name} |->
                   IF n = module_name THEN NewModule(module_name) ELSE mods[n]],
    result |-> TRUE ]

\* ModuleRegistry::RegisterModule: modules_.insert leaves the map alone when
\* the key exists; result is FALSE for nullptr
RegisterModuleOp(mods, module_name) ==
  IF module_name \in DOMAIN mods
    THEN [modules |-> mods, result |-> FALSE]
    ELSE [modules |-> (module_name :> NewModule(module_name)) @@ mods,
          result |-> TRUE]

\* mutant: OnRegister runs on the signature the insert found
RegisterNodeOp_OnRegisterAlways(module, class, node_name) ==
  LET found == IF node_name \in DOMAIN module.signatures
                 THEN module.signatures[node_name]
                 ELSE NewNodeSignature(module.module_name, node_name, class)
  IN  [ module |-> [module EXCEPT !.signatures =
                      (node_name :> OnRegister(class, found)) @@ @],
        on_register |-> TRUE ]

\* Module::RegisterNode<class>(node_name): signatures_.insert, and
\* OnRegister on the new signature only
RegisterNodeOp(module, class, node_name) ==
  IF node_name \in DOMAIN module.signatures
    THEN [module |-> module, on_register |-> FALSE]
    ELSE [ module |->
             [module EXCEPT !.signatures =
                (node_name :> OnRegister(class,
                                NewNodeSignature(module.module_name,
                                                 node_name, class))) @@ @],
           on_register |-> TRUE ]

\* module_registry.RegisterModule(module_name)
RegisterModule(module_name) ==
  /\ stack = << >> /\ ~ aborted
  /\ LET r == RegisterModuleOp(modules, module_name)
     IN  /\ modules' = r.modules
         /\ registered' = [op |-> "RegisterModule", module |-> module_name,
                           node |-> "", class |-> "", result |-> r.result,
                           on_register |-> FALSE]
  /\ UNCHANGED <<graph, finalize, pre, gs, broadcasters, stack, aborted,
                 callbacks, listener, counters, set_defaults, destroyed,
                 last_call, log, loop, factory_vars>>

\* module->RegisterNode<class>(node_name), on the pointer RegisterModule
\* returned for module_name
RegisterNode(module_name, class, node_name) ==
  /\ stack = << >> /\ ~ aborted
  /\ module_name \in DOMAIN modules
  /\ LET r == RegisterNodeOp(modules[module_name], class, node_name)
     IN  /\ modules' = [modules EXCEPT ![module_name] = r.module]
         /\ registered' = [op |-> "RegisterNode", module |-> module_name,
                           node |-> node_name, class |-> class,
                           result |-> r.on_register,
                           on_register |-> r.on_register]
  /\ UNCHANGED <<graph, finalize, pre, gs, broadcasters, stack, aborted,
                 callbacks, listener, counters, set_defaults, destroyed,
                 last_call, log, loop, factory_vars>>

\* ss << count_: the decimal digits of n
RECURSIVE Decimal(_)
Decimal(n) == IF n < 10 THEN <<n>> ELSE Append(Decimal(n \div 10), n % 10)

\* broadcaster.BroadcastEvent(kCounterEvent) in the loop of main, which
\* runs once the application's listener is registered
MainBroadcastEvent ==
  /\ stack = << >> /\ ~ aborted
  /\ InList(broadcasters, AppListenerRef(1))
  /\ loop < MaxLoop
  /\ loop' = loop + 1
  /\ LET list == ListenerList(broadcasters, "B1", "E1") IN
       stack' =
         <<[Frame("Broadcast", 0, NoListener, "B1", "E1",
                  IF list = << >> THEN NoListener ELSE list[1])
              EXCEPT !.reached = list,
                     !.before = [s \in GraphStates |-> gs[s].timestamp],
                     !.calls = [s \in GraphStates |-> 0]]>>
  /\ UNCHANGED <<graph, finalize, pre, gs, broadcasters, aborted, callbacks,
                 listener, counters, set_defaults, destroyed, last_call,
                 modules, registered, log, factory_vars>>

\* graph_state.Initialize(graph) in main, reached when CreateGraph has
\* returned a graph
MainInitialize ==
  /\ finalize = "true"
  /\ CallInitialize(1)

\* one turn of the loop of GraphState::Execute on the third node of the
\* sample, PrintEvent, whose Execute gives the text of its input to the log
\* function and sets no output
PrintEventExecute ==
  /\ stack # << >> /\ Top.op = "Execute"
  /\ Top.i <= Len(graph.sorted_nodes)
  /\ LET s == Top.gs
         n == graph.sorted_nodes[Top.i]
     IN  IF IsDirty(graph, gs[s], n)
           THEN /\ log' = Append(log, GetInput(graph, gs[s].output_buffer, n, 1))
                /\ stack' =
                     <<[Top EXCEPT
                          !.i = @ + 1,
                          !.executed =
                            Append(@, Readings(graph, gs[s], n, {}, 0))]>>
                     \o Tail(stack)
                /\ callbacks' = TRUE
           ELSE /\ stack' = <<[Top EXCEPT !.i = @ + 1]>> \o Tail(stack)
                /\ UNCHANGED <<callbacks, log>>
  /\ UNCHANGED <<graph, finalize, pre, gs, broadcasters, aborted, listener,
                 counters, set_defaults, destroyed, last_call, modules,
                 registered, loop, factory_vars>>

\* the Execute callbacks of the sample with the text CountEvent makes of
\* its count: SetOutput(0, ss.str())
MainExecute ==
  /\ stack # << >> /\ Top.op = "Execute"
  /\ Top.i <= Len(graph.sorted_nodes)
  /\ LET n == graph.sorted_nodes[Top.i] IN
       IF graph.nodes[n].signature = "Capture"
         THEN ExecuteNode({1}, kCaptureValue, 0)
       ELSE IF graph.nodes[n].output_edges[1].connected
         THEN LET input == GetInput(graph, gs[Top.gs].output_buffer, n, 1)
              IN  ExecuteNode({1}, Decimal(counters[n] + input), input)
       ELSE PrintEventExecute

\* what a destructor has done: the destroy operations it ran, in order, and
\* whether an assert stopped it (aborted) or it indexed a vector past its
\* end (undefined)
Destruction(calls, abort, undef) ==
  [calls |-> calls, aborted |-> abort, undefined |-> undef]

\* type->operator_delete_func(ptr) on the object at offset of kind's buffer,
\* found as edge (or listener) i of node n
DestroyCall(kind, n, i, offset) ==
  [kind |-> kind, node |-> n, index |-> i, offset |-> offset]

\* MemoryBuffer::GetObjectPtr: assert(buffer_.size() > 0 && offset < size)
GetObjectPtrOk(size, offset) == size > 0 /\ offset < size

\* Graph::~Graph from input i of node n on.  Only the default values are
\* destructed: Node has no destructor, and nothing calls
\* NodeSignature::Destructor on the BaseNode that Node::Node constructed.
RECURSIVE GraphDestructor(_, _, _, _)
GraphDestructor(g, n, i, calls) ==
  IF n > Len(g.nodes) THEN Destruction(calls, FALSE, FALSE)
  ELSE IF i > Len(SigOf(g.nodes[n]).input_parameters)
    THEN GraphDestructor(g, n + 1, 1, calls)
  ELSE IF i > Len(g.nodes[n].input_edges)
    THEN Destruction(calls, FALSE, TRUE)
  ELSE
    LET input_edge == g.nodes[n].input_edges[i]
        type == Types[GetInputEdgeType(g.nodes[n], i)]
    IN  IF input_edge.connected \/ type.size = 0
          THEN GraphDestructor(g, n, i + 1, calls)
        ELSE IF ~ GetObjectPtrOk(g.input_buffer.size, input_edge.data_offset)
          THEN Destruction(calls, TRUE, FALSE)
        ELSE GraphDestructor(g, n, i + 1,
               Append(calls,
                      DestroyCall("default", n, i, input_edge.data_offset)))

\* mutant: the value of every output is destructed, connected or not
OutputDestructors_EveryOutput(g, n, i) ==
  LET RECURSIVE Walk(_)
      Walk(k) ==
        IF k > Len(SigOf(g.nodes[n]).output_parameters) THEN << >>
        ELSE <<DestroyCall("value", n, k,
                           g.nodes[n].output_edges[k].data_offset)>>
             \o Walk(k + 1)
  IN  Walk(i)

\* GraphState::~GraphState, the loop over the outputs of node n from output
\* i on: timestamp->~Timestamp() and, for a type of non-zero size,
\* operator_delete_func, on each connected output
OutputDestructors(g, n, i) ==
  LET RECURSIVE Walk(_)
      Walk(k) ==
        IF k > Len(SigOf(g.nodes[n]).output_parameters) THEN << >>
        ELSE LET output_edge == g.nodes[n].output_edges[k]
                 type == Types[GetOutputEdgeType(g.nodes[n], k)]
             IN  (IF ~ output_edge.connected THEN << >>
                  ELSE <<DestroyCall("timestamp", n, k,
                                     output_edge.timestamp_offset)>>
                       \o (IF type.size > 0
                             THEN <<DestroyCall("value", n, k,
                                                output_edge.data_offset)>>
                             ELSE << >>))
                 \o Walk(k + 1)
  IN  Walk(i)

\* mutant: the listeners are left alone
ListenerDestructors_None(g, n) == << >>

\* GraphState::~GraphState, the loop over the listener offsets of node n:
\* listener->~NodeEventListener()
ListenerDestructors(g, n) ==
  [i \in 1..Len(g.nodes[n].listener_offsets) |->
     DestroyCall("listener", n, i, g.nodes[n].listener_offsets[i])]

\* GraphState::~GraphState: if (graph_), node by node in the order of
\* graph_->nodes()
GraphStateDestructor(g, state) ==
  LET RECURSIVE Walk(_)
      Walk(n) ==
        IF n > Len(g.nodes) THEN << >>
        ELSE OutputDestructors(g, n, 1) \o ListenerDestructors(g, n)
             \o Walk(n + 1)
  IN  IF state.graph THEN Walk(1) ELSE << >>

\* ~NodeEventListener on every listener of instance s: the
\* intrusive_list_node member leaves the list that holds it
UnlinkInstance(bc, s) ==
  [b \in DOMAIN bc |->
     [e \in DOMAIN bc[b] |->
        SelectSeq(bc[b][e], LAMBDA r : r.gs # s \/ r = AppListenerRef(s))]]

\* the GraphState object s goes out of scope.  The application's own
\* listener, declared after it, is gone by then.  The slot then stands for
\* the next GraphState the application declares.
DestroyGraphState(s) ==
  /\ stack = << >> /\ ~ aborted
  /\ listener.graph_state # s
  /\ destroyed' = [object |-> "GraphState", gs |-> s,
                   initialized |-> gs[s].graph,
                   calls |-> GraphStateDestructor(graph, gs[s])]
  /\ gs' = [gs EXCEPT ![s] = NewGraphState]
  /\ broadcasters' = UnlinkInstance(broadcasters, s)
  /\ UNCHANGED <<graph, finalize, pre, stack, aborted, callbacks, listener,
                 counters, set_defaults, lib_vars>>

\* delete graph, once no GraphState refers to it, as the last statement of
\* main: the program is over after it.  Indexing input_edges() past its end
\* is undefined: the destructor may crash there or return.
DestroyGraph ==
  /\ stack = << >> /\ ~ aborted
  /\ \A s \in GraphStates : ~ gs[s].graph
  /\ LET r == GraphDestructor(graph, 1, 1, << >>)
     IN  /\ destroyed' = [object |-> "Graph", gs |-> 0,
                          initialized |-> graph.nodes_finalized,
                          calls |-> r.calls]
         /\ IF r.undefined THEN aborted' \in BOOLEAN
                           ELSE aborted' = r.aborted
  /\ stack' = <<Frame("Exit", 0, NoListener, "", "", NoListener)>>
  /\ UNCHANGED <<graph, finalize, pre, gs, broadcasters, callbacks, listener,
                 counters, set_defaults, lib_vars>>

\* The application and the callbacks it registered: callbacks write values
\* of Vs and bind listeners to broadcasters of Bs.
Steps(Vs, Bs) ==
  \/ CallFinalizeNodes
  \/ \E s \in GraphStates : CallInitialize(s)
  \/ \E W \in SUBSET (1..1), v \in Vs, bind \in BOOLEAN, b \in Bs :
       InitializeNode(W, v, bind, b)
  \/ InitializeReturn
  \/ \E s \in GraphStates : CallExecute(s)
  \/ \E W \in SUBSET (1..1), v \in Vs : ExecuteNode(W, v, 0)
  \/ ExecuteReturn
  \/ \E b \in Bs, event_id \in EventIds : CallBroadcastEvent(b, event_id)
  \/ BroadcastStep
  \/ BroadcastReturn

\* Every callback writes the value CaptureEvent writes, every listener is
\* bound to the one broadcaster of the sample.
Next == Steps({kCaptureValue}, {"B1"})

Spec == Init /\ [][Next]_vars

\* The graphs of the value specification: the graph with a default value
\* and forward references, and the graph with void edges.
DataPlans ==
  { << <<"Count", <<2>> >>, <<"Join", <<3, 0>> >>, <<"Capture", << >> >> >>,
    << <<"Signal", <<0>> >>, <<"Signal", <<1>> >> >> }

InitData ==
  /\ graph \in { BuildGraph(NewGraph, plan, 1) : plan \in DataPlans }
  /\ counters = [n \in 1..Len(graph.nodes) |-> 0]
  /\ finalize = "none"
  /\ pre = NewGraph
  /\ InitInstances

\* Callbacks write any value of Values, and the application sets default
\* values, also with indices that name no unconnected input.
NextData ==
  \/ Steps(Values, {"B1"})
  \/ \E n \in 1..(MaxNodes + 1), e \in 1..MaxEdges, v \in Values :
       CallSetDefaultValue(n, e, v)

SpecData == InitData /\ [][NextData]_vars

\* The graph of the listener specification: CaptureEvent, with one
\* listener in each instance, and a consumer.
ListenerPlans ==
  { << <<"Capture", << >> >>, <<"Count", <<1>> >> >> }

InitListeners ==
  /\ graph \in { BuildGraph(NewGraph, plan, 1) : plan \in ListenerPlans }
  /\ counters = [n \in 1..Len(graph.nodes) |-> 0]
  /\ finalize = "none"
  /\ pre = NewGraph
  /\ InitInstances

\* Callbacks bind their listeners to either broadcaster, and the application
\* registers a listener of its own, as main does.
NextListeners ==
  \/ Steps({kCaptureValue}, Broadcasters)
  \/ \E s \in GraphStates, event_id \in EventIds : NewAppListener(s, event_id)
  \/ \E b \in Broadcasters : RegisterAppListener(b)

SpecListeners == InitListeners /\ [][NextListeners]_vars

\* CaptureEvent -> CountEvent
WrapPlans ==
  { << <<"Capture", << >> >>, <<"Count", <<1>> >> >> }

InitWrap ==
  /\ graph \in { BuildGraph(NewGraph, plan, 1) : plan \in WrapPlans }
  /\ counters = [n \in 1..Len(graph.nodes) |-> 0]
  /\ finalize = "none"
  /\ pre = NewGraph
  /\ InitInstances

\* The application also runs an instance for as long as the Timestamp lasts.
NextWrap ==
  \/ Next
  \/ \E s \in GraphStates : ExecuteUnmarked(s)

SpecWrap == InitWrap /\ [][NextWrap]_vars

\* CaptureEvent -> CountEvent
ReentrantPlans ==
  { << <<"Capture", << >> >>, <<"Count", <<1>> >> >> }

InitReentrant ==
  /\ graph \in { BuildGraph(NewGraph, plan, 1) : plan \in ReentrantPlans }
  /\ counters = [n \in 1..Len(graph.nodes) |-> 0]
  /\ finalize = "none"
  /\ pre = NewGraph
  /\ InitInstances

\* Execute callbacks may call BroadcastEvent on the broadcaster their
\* listeners are bound to.
NextReentrant ==
  \/ Next
  \/ \E W \in SUBSET (1..1), event_id \in EventIds :
       ExecuteNodeBroadcast(W, kCaptureValue, "B1", event_id)

\* a call that has begun goes on: the calls are plain function calls of
\* one thread
Running == stack # << >> /\ NextReentrant

SpecReentrant ==
  InitReentrant /\ [][NextReentrant]_vars /\ WF_vars(Running)

\* The graphs of the destruction specification: one with a default value,
\* values on connected outputs and a listener, one with void edges and two
\* listeners, and one that FinalizeNodes rejects for its edge count and one for its cycle.
DestroyPlans ==
  { << <<"Join", <<2, 0>> >>, <<"Capture", << >> >> >>,
    << <<"Signal", <<0>> >>, <<"Signal", <<1>> >> >>,
    << <<"Join", <<0>> >> >>,
    << <<"Join", <<1, 0>> >> >> }

InitDestroy ==
  /\ graph \in { BuildGraph(NewGraph, plan, 1) : plan \in DestroyPlans }
  /\ counters = [n \in 1..Len(graph.nodes) |-> 0]
  /\ finalize = "none"
  /\ pre = NewGraph
  /\ InitInstances

\* The application also lets its GraphStates go out of scope and deletes
\* the graph.
NextDestroy ==
  \/ Next
  \/ \E s \in GraphStates : DestroyGraphState(s)
  \/ DestroyGraph

SpecDestroy == InitDestroy /\ [][NextDestroy]_vars

\* The graphs of the argument specification: int and void edges, connected
\* and unconnected.
CallPlans ==
  { << <<"Join", <<2, 0>> >>, <<"Capture", << >> >> >>,
    << <<"Signal", <<0>> >>, <<"Signal", <<1>> >> >> }

InitCalls ==
  /\ graph \in { BuildGraph(NewGraph, plan, 1) : plan \in CallPlans }
  /\ counters = [n \in 1..Len(graph.nodes) |-> 0]
  /\ finalize = "none"
  /\ pre = NewGraph
  /\ InitInstances

\* Execute callbacks call GetInput and SetOutput with any index and type.
NextCalls ==
  \/ Next
  \/ \E op \in {"GetInput", "SetOutput"}, argument_index \in 1..MaxEdges,
        requested_type \in DOMAIN Types :
       ExecuteNodeCall(op, argument_index, requested_type, kCaptureValue)

SpecCalls == InitCalls /\ [][NextCalls]_vars

\* Execute callbacks also call IsInputDirty, IsListenerDirty and
\* BindBroadcaster with any index.
NextIndex ==
  \/ NextCalls
  \/ \E op \in {"IsInputDirty", "IsListenerDirty", "BindBroadcaster"},
        index \in 1..MaxEdges, outcome \in Outcomes :
       ExecuteNodeQuery(op, index, "B1", outcome)

SpecIndex == InitCalls /\ [][NextIndex]_vars

\* The application registers modules and nodes, also under names that are
\* taken; no graph is built.
NextRegistry ==
  \/ \E module_name \in ModuleNames : RegisterModule(module_name)
  \/ \E module_name \in ModuleNames, class \in NodeClasses,
        node_name \in NodeNames :
       RegisterNode(module_name, class, node_name)

SpecRegistry == InitBuild /\ [][NextRegistry]_vars

\* graph->FinalizeNodes() on a Graph for which it has returned true.  The
\* function has no test of nodes_finalized_: every loop runs again, and
\* MemoryBuffer::Initialize asserts buffer_.size() == 0 after the loop that
\* marks the input edges.  last_call.index counts these calls.
CallFinalizeNodesAgain ==
  /\ finalize = "true"
  /\ stack = << >> /\ ~ aborted
  /\ last_call.index < MaxAgain
  /\ LET r    == FinalizeNodes(graph)
         mark == MarkInputEdges(ResizeOutputEdges(graph.nodes), 0, 1, 1)
     IN  IF mark.ok /\ graph.input_buffer.size # 0
           THEN /\ graph' = [graph EXCEPT !.nodes = mark.nodes]
                /\ aborted' = TRUE
                /\ stack' = <<Frame("Assert", 0, NoListener, "", "", NoListener)>>
                /\ last_call' = [NoCall EXCEPT !.op = "FinalizeNodes",
                                               !.index = last_call.index + 1]
                /\ UNCHANGED finalize
           ELSE /\ graph' = r.graph
                /\ finalize' = IF r.result THEN "true" ELSE "false"
                /\ last_call' = [NoCall EXCEPT !.op = "FinalizeNodes",
                                               !.index = last_call.index + 1,
                                               !.returned = TRUE,
                                               !.result =
                                                 <<IF r.result THEN 1 ELSE 0>>]
                /\ UNCHANGED <<aborted, stack>>
  /\ pre' = graph
  /\ UNCHANGED <<gs, broadcasters, callbacks, listener, counters,
                 set_defaults, destroyed, modules, registered, log, loop, factory_vars>>

\* The application also calls FinalizeNodes again on a finalized graph.
NextBuildAgain ==
  \/ NextBuild
  \/ CallFinalizeNodesAgain

SpecBuildAgain == InitBuild /\ [][NextBuildAgain]_vars

\* mutant: the cache is not looked at, every call loads the file
LoadGraphOp_NoCache(cache, history, filename, file_ok, parse_ok) ==
  LET h1 == [history EXCEPT !.calls[filename] = @ + 1,
                            !.filename = filename,
                            !.load_file_callback[filename] = @ + 1]
  IN  IF ~ file_ok
        THEN [loaded_graphs |-> cache, loads |-> [h1 EXCEPT !.result = << >>]]
      ELSE
        LET h2 == [h1 EXCEPT !.graphs = @ + 1, !.ParseData[filename] = @ + 1]
        IN  IF ~ parse_ok
              THEN [loaded_graphs |-> cache,
                    loads |-> [h2 EXCEPT !.result = << >>]]
              ELSE [loaded_graphs |->
                      [f \in DOMAIN cache \cup {filename} |->
                         IF f = filename THEN h2.graphs ELSE cache[f]],
                    loads |-> [h2 EXCEPT !.result = <<h2.graphs>>]]

\* GraphFactory::LoadGraph(filename) on the cache loaded_graphs_, with what
\* the file-load callback and ParseData return when they are called: the
\* cached graph if find() finds one; else the callback, new Graph (the
\* graphs-th object), ParseData, and the graph goes into the cache only when
\* both returned true.  [loaded_graphs, loads]
LoadGraphOp(cache, history, filename, file_ok, parse_ok) ==
  LET h0 == [history EXCEPT !.calls[filename] = @ + 1,
                            !.filename = filename]
  IN  IF filename \in DOMAIN cache
        THEN [loaded_graphs |-> cache,
              loads |-> [h0 EXCEPT !.result = <<cache[filename]>>]]
      ELSE
        LET h1 == [h0 EXCEPT !.load_file_callback[filename] = @ + 1]
        IN  IF ~ file_ok
              THEN [loaded_graphs |-> cache,
                    loads |-> [h1 EXCEPT !.result = << >>]]
            ELSE
              LET h2 == [h1 EXCEPT !.graphs = @ + 1,
                                   !.ParseData[filename] = @ + 1]
              IN  IF ~ parse_ok
                    THEN [loaded_graphs |-> cache,
                          loads |-> [h2 EXCEPT !.result = << >>]]
                    ELSE [loaded_graphs |->
                            [f \in DOMAIN cache \cup {filename} |->
                               IF f = filename THEN h2.graphs ELSE cache[f]],
                          loads |-> [h2 EXCEPT !.result = <<h2.graphs>>]]

\* graph_factory.LoadGraph(filename), called by the application
LoadGraph(filename, file_ok, parse_ok) ==
  /\ stack = << >> /\ ~ aborted
  /\ loads.calls[filename] < MaxLoads
  /\ LET r == LoadGraphOp(loaded_graphs, loads, filename, file_ok, parse_ok)
     IN  /\ loaded_graphs' = r.loaded_graphs
         /\ loads' = r.loads
  /\ UNCHANGED <<graph, finalize, pre, gs, broadcasters, stack, aborted,
                 callbacks, listener, counters, set_defaults, destroyed,
                 last_call, modules, registered, log, loop>>

\* The application loads graphs by name; the file-load callback and
\* ParseData succeed or fail as they like.
NextFactory ==
  \E filename \in Filenames, file_ok \in BOOLEAN, parse_ok \in BOOLEAN :
    LoadGraph(filename, file_ok, parse_ok)

SpecFactory == InitBuild /\ [][NextFactory]_vars

\* The graph of the rebinding specification: two CaptureEvent nodes, so
\* that two instances put up to four listeners into one list.
RebindPlans ==
  { << <<"Capture", << >> >>, <<"Capture", << >> >> >> }

InitRebind ==
  /\ graph \in { BuildGraph(NewGraph, plan, 1) : plan \in RebindPlans }
  /\ counters = [n \in 1..Len(graph.nodes) |-> 0]
  /\ finalize = "none"
  /\ pre = NewGraph
  /\ InitInstances

\* Execute callbacks may bind their listeners again to the broadcaster.
NextRebind ==
  \/ Next
  \/ \E W \in SUBSET (1..1) : ExecuteNodeBind(W, kCaptureValue, "B1")

SpecRebind == InitRebind /\ [][NextRebind]_vars

\* The graphs of the default-value specification: two default values and a
\* connected input, one default value behind connected inputs, void inputs.
DefaultPlans ==
  { << <<"Join", <<0, 0>> >>, <<"Count", <<1>> >> >>,
    << <<"Count", <<2>> >>, <<"Join", <<3, 0>> >>, <<"Capture", << >> >> >>,
    << <<"Signal", <<0>> >>, <<"Signal", <<1>> >> >> }

InitDefaults ==
  /\ graph \in { BuildGraph(NewGraph, plan, 1) : plan \in DefaultPlans }
  /\ counters = [n \in 1..Len(graph.nodes) |-> 0]
  /\ finalize = "none"
  /\ pre = NewGraph
  /\ InitInstances

\* The application finalizes the graph and sets default values, also with
\* indices that name no unconnected input of type int.
NextDefaults ==
  \/ CallFinalizeNodes
  \/ \E n \in 1..(MaxNodes + 1), e \in 1..MaxEdges, v \in Values :
       SetDefaultValueCall(n, e, v)

SpecDefaults == InitDefaults /\ [][NextDefaults]_vars

\* The event_counter sample: CaptureEvent -> CountEvent -> a consumer of the
\* count
SamplePlans ==
  { << <<"Capture", << >> >>, <<"Count", <<1>> >>, <<"Count", <<2>> >> >> }

InitSample ==
  /\ graph \in { BuildGraph(NewGraph, plan, 1) : plan \in SamplePlans }
  /\ counters = [n \in 1..Len(graph.nodes) |-> 0]
  /\ finalize = "none"
  /\ pre = NewGraph
  /\ InitInstances

\* the Initialize callbacks of the sample: CaptureEvent binds its listener to
\* the broadcaster, the other nodes keep BaseNode::Initialize
SampleInitialize ==
  /\ stack # << >> /\ Top.op = "Initialize"
  /\ Top.i <= Len(graph.sorted_nodes)
  /\ InitializeNode({}, kCaptureValue,
                    graph.nodes[graph.sorted_nodes[Top.i]].signature = "Capture",
                    "B1")

\* the Execute callbacks of the sample.  CaptureEvent: SetOutput(0, 1).
\* CountEvent: count_ += *GetInput<int>(0); SetOutput(0, count_), the count
\* standing for its decimal text.
SampleExecute ==
  /\ stack # << >> /\ Top.op = "Execute"
  /\ Top.i <= Len(graph.sorted_nodes)
  /\ LET n == graph.sorted_nodes[Top.i] IN
       IF graph.nodes[n].signature = "Capture"
         THEN ExecuteNode({1}, kCaptureValue, 0)
         ELSE LET input == GetInput(graph, gs[Top.gs].output_buffer, n, 1)
              IN  ExecuteNode({1}, counters[n] + input, input)

\* main of the sample, with Execute also called directly
NextSample ==
  \/ CallFinalizeNodes
  \/ \E s \in GraphStates : CallInitialize(s)
  \/ SampleInitialize
  \/ InitializeReturn
  \/ \E s \in GraphStates : CallExecute(s)
  \/ SampleExecute
  \/ ExecuteReturn
  \/ CallBroadcastEvent("B1", "E1")
  \/ BroadcastStep
  \/ BroadcastReturn
  \/ \E s \in GraphStates : NewAppListener(s, "E1")
  \/ RegisterAppListener("B1")

SpecSample == InitSample /\ [][NextSample]_vars

\* main of the sample, statement by statement
NextMain ==
  \/ CallFinalizeNodes
  \/ MainInitialize
  \/ SampleInitialize
  \/ InitializeReturn
  \/ NewAppListener(1, "E1")
  \/ RegisterAppListener("B1")
  \/ MainBroadcastEvent
  \/ BroadcastStep
  \/ MainExecute
  \/ ExecuteReturn
  \/ BroadcastReturn

SpecMain == InitSample /\ [][NextMain]_vars



----------------------------------------------------------------------------
(* Properties of the graph a FinalizeNodes call was given *)

\* <<a, b>>: node a has a connected input edge that targets an output of b
Dependencies(ns) ==
  { <<a, ns[a].input_edges[j].target.node_index>> :
      <<a, j>> \in { aj \in UNION { {a} \X (1..Len(ns[a].input_edges)) :
                                     a \in 1..Len(ns) } :
                       ns[aj[1]].input_edges[aj[2]].connected } }

RECURSIVE TransitiveClosure(_, _)
TransitiveClosure(R, k) ==
  IF k = 0 THEN R
  ELSE TransitiveClosure(
         R \cup { <<p[1], q[2]>> : <<p, q>> \in { pq \in R \X R : pq[1][2] = pq[2][1] } },
         k - 1)

HasCycle(ns) ==
  \E n \in 1..Len(ns) : <<n, n>> \in TransitiveClosure(Dependencies(ns), Len(ns))

EdgeCountsMatch(ns) ==
  \A n \in 1..Len(ns) :
    Len(ns[n].input_edges) = Len(Signatures[ns[n].signature].input_parameters)

\* some connected input edge whose declared type is not its target's type
HasTypeMismatch(ns) ==
  \E n \in 1..Len(ns) : \E j \in 1..Len(ns[n].input_edges) :
    LET e == ns[n].input_edges[j] IN
      /\ e.connected
      /\ j <= Len(Signatures[ns[n].signature].input_parameters)
      /\ Signatures[ns[n].signature].input_parameters[j] #
           Signatures[ns[e.target.node_index].signature]
             .output_parameters[e.target.edge_index]

----------------------------------------------------------------------------
(* Claims *)

\* C1: after FinalizeNodes returns true, sorted_nodes holds every node of the
\* graph exactly once, and for every connected input edge of node A that
\* targets an output of node B, B comes strictly before A.
C1_TopologicalOrder ==
  finalize = "true" =>
    /\ Len(graph.sorted_nodes) = Len(graph.nodes)
    /\ \A n \in 1..Len(graph.nodes) :
         \E i \in 1..Len(graph.sorted_nodes) : graph.sorted_nodes[i] = n
    /\ \A d \in Dependencies(graph.nodes) :
         PositionOf(graph.sorted_nodes, d[2]) < PositionOf(graph.sorted_nodes, d[1])

\* a finalized three-node graph in which a node depends on a later-added
\* node, which itself depends on another node
C1_Witness ==
  /\ finalize = "true"
  /\ Len(graph.nodes) = 3
  /\ \E d1, d2 \in Dependencies(graph.nodes) :
       /\ d1[2] > d1[1]
       /\ d2[1] = d1[2]
       /\ d2[2] # d1[1]

\* C4: when edge counts and edge types all match, FinalizeNodes returns
\* false exactly when the connected input edges form a directed cycle.
C4_FalseIffCycle ==
  (finalize # "none" /\ EdgeCountsMatch(pre.nodes) /\ ~ HasTypeMismatch(pre.nodes))
    => ((finalize = "false") <=> HasCycle(pre.nodes))

\* a well-typed graph with a cycle through two distinct nodes was rejected
C4_Witness ==
  /\ finalize = "false"
  /\ EdgeCountsMatch(pre.nodes)
  /\ ~ HasTypeMismatch(pre.nodes)
  /\ \E d \in Dependencies(pre.nodes) :
       d[1] # d[2] /\ <<d[2], d[1]>> \in TransitiveClosure(Dependencies(pre.nodes), 3)

\* C5: FinalizeNodes returns false whenever some connected input edge's
\* declared type differs from the type of the output edge it targets.
C5_TypeMismatchRejected ==
  (finalize # "none" /\ HasTypeMismatch(pre.nodes)) => finalize = "false"

\* the only defect of the rejected graph is a type mismatch, on its last node
C5_Witness ==
  /\ finalize = "false"
  /\ EdgeCountsMatch(pre.nodes)
  /\ ~ HasCycle(pre.nodes)
  /\ Len(pre.nodes) = 3
  /\ HasTypeMismatch(pre.nodes)
  /\ ~ HasTypeMismatch(SubSeq(pre.nodes, 1, 2))

\* C6: FinalizeNodes returns false whenever some node's number of input
\* edges differs from the number of inputs its signature declares.
C6_EdgeCountRejected ==
  (finalize # "none" /\ ~ EdgeCountsMatch(pre.nodes)) => finalize = "false"

\* a rejected graph whose only defect is one input edge too many
C6_Witness ==
  /\ finalize = "false"
  /\ ~ HasCycle(pre.nodes)
  /\ ~ HasTypeMismatch(pre.nodes)
  /\ \E n \in 1..Len(pre.nodes) :
       Len(pre.nodes[n].input_edges) >
         Len(Signatures[pre.nodes[n].signature].input_parameters)

\* the output edges (as <<node, output>>) that FinalizeNodes marked connected
ConnectedOutputs(ns) ==
  { no \in UNION { {n} \X (1..Len(ns[n].output_edges)) : n \in 1..Len(ns) } :
      ns[no[1]].output_edges[no[2]].connected }

\* the output edges targeted by a connected input edge of the nodes 1..upto
TargetedOutputs(ns, upto) ==
  { <<ns[a].input_edges[j].target.node_index,
      ns[a].input_edges[j].target.edge_index>> :
      <<a, j>> \in { aj \in UNION { {a} \X (1..Len(ns[a].input_edges)) :
                                     a \in 1..upto } :
                       ns[aj[1]].input_edges[aj[2]].connected } }

\* no per-instance offset has been assigned, the sorted list is empty and
\* the default-value buffer is as it was
InstanceLayoutUntouched ==
  /\ graph.sorted_nodes = << >>
  /\ graph.input_buffer = pre.input_buffer
  /\ graph.output_buffer_size = pre.output_buffer_size
  /\ \A n \in 1..Len(graph.nodes) :
       /\ graph.nodes[n].listener_offsets = << >>
       /\ graph.nodes[n].timestamp_offset = pre.nodes[n].timestamp_offset
       /\ \A o \in 1..Len(graph.nodes[n].output_edges) :
            /\ graph.nodes[n].output_edges[o].timestamp_offset = 0
            /\ graph.nodes[n].output_edges[o].data_offset = 0

\* C7 as claimed: when FinalizeNodes returns false the layout state is the
\* same as before the call (no output edge connected, no offset assigned,
\* default-value buffer neither allocated nor populated, sorted list empty).
C7_LayoutUnchangedOnFailure ==
  finalize = "false" =>
    /\ ConnectedOutputs(graph.nodes) = {}
    /\ InstanceLayoutUntouched
    /\ \A n \in 1..Len(graph.nodes) :
         graph.nodes[n].input_edges = pre.nodes[n].input_edges

\* the first node whose edge count differs from its signature's
FirstEdgeCountMismatch(ns) ==
  CHOOSE i \in 1..Len(ns) :
    /\ Len(ns[i].input_edges) # Len(Signatures[ns[i].signature].input_parameters)
    /\ \A k \in 1..(i - 1) :
         Len(ns[k].input_edges) = Len(Signatures[ns[k].signature].input_parameters)

\* C7, amended: when FinalizeNodes returns false the graph stays
\* unfinalized, and the layout is untouched only past the point of failure.
\* On an edge-count mismatch at node i exactly the outputs targeted by the
\* nodes before i are connected, the input edges from i on are as before,
\* and no per-instance offset, default buffer or sort result exists.  On a
\* type mismatch or cycle the whole layout has been assigned: exactly the
\* targeted outputs are connected, every node has its listener offsets, the
\* default buffer is populated, the output buffer size is set, and the
\* sorted list holds, without repetition, the nodes inserted before the
\* error.
C7_PartialLayoutOnFailure ==
  finalize = "false" =>
    /\ ~ graph.nodes_finalized
    /\ IF ~ EdgeCountsMatch(pre.nodes)
         THEN LET i == FirstEdgeCountMismatch(pre.nodes) IN
              /\ ConnectedOutputs(graph.nodes) = TargetedOutputs(pre.nodes, i - 1)
              /\ \A n \in i..Len(graph.nodes) :
                   graph.nodes[n].input_edges = pre.nodes[n].input_edges
              /\ InstanceLayoutUntouched
         ELSE /\ ConnectedOutputs(graph.nodes) =
                   TargetedOutputs(pre.nodes, Len(pre.nodes))
              /\ \A n \in 1..Len(graph.nodes) :
                   Len(graph.nodes[n].listener_offsets) =
                     Len(Signatures[graph.nodes[n].signature].event_listeners)
              /\ graph.input_buffer.constructed =
                   { nj \in UNION { {n} \X (1..Len(pre.nodes[n].input_edges)) :
                                     n \in 1..Len(pre.nodes) } :
                       /\ ~ pre.nodes[nj[1]].input_edges[nj[2]].connected
                       /\ Signatures[pre.nodes[nj[1]].signature]
                            .input_parameters[nj[2]] # "Void" }
              /\ graph.output_buffer_size \in Nat
              /\ Len(graph.sorted_nodes) < Len(graph.nodes)
              /\ \A p, q \in 1..Len(graph.sorted_nodes) :
                   graph.sorted_nodes[p] = graph.sorted_nodes[q] => p = q

\* a cycle was found after one node had been sorted and a default value
\* constructed
C7_Witness ==
  /\ finalize = "false"
  /\ EdgeCountsMatch(pre.nodes)
  /\ HasCycle(pre.nodes)
  /\ Len(graph.sorted_nodes) > 0
  /\ graph.input_buffer.constructed # {}

----------------------------------------------------------------------------
(* Claims about Execute passes and broadcasts *)

\* an Execute pass has visited every node and is about to advance the Timestamp
PassComplete ==
  /\ stack # << >>
  /\ stack[1].op = "Execute"
  /\ stack[1].i > Len(graph.sorted_nodes)

\* the nodes whose Execute callback ran in the pass, in order
ExecutedNodes(frame) == [k \in 1..Len(frame.executed) |-> frame.executed[k].node]

\* the nodes with an input edge connected to output o of node a
ConsumersOf(a, o) ==
  { b \in 1..Len(graph.nodes) :
      \E j \in 1..Len(graph.nodes[b].input_edges) :
        /\ graph.nodes[b].input_edges[j].connected
        /\ graph.nodes[b].input_edges[j].target = [node_index |-> a, edge_index |-> o] }

\* something that makes node n dirty carries the Timestamp of instance s
StampedNow(s, n) ==
  LET node == graph.nodes[n]
      buf  == gs[s].output_buffer
      now  == gs[s].timestamp
  IN  \/ buf[node.timestamp_offset] = now
      \/ \E l \in 1..Len(node.listener_offsets) :
           buf[node.listener_offsets[l]].timestamp = now
      \/ \E j \in 1..Len(node.input_edges) :
           /\ node.input_edges[j].connected
           /\ buf[graph.nodes[node.input_edges[j].target.node_index]
                    .output_edges[node.input_edges[j].target.edge_index]
                    .timestamp_offset] = now

\* C2: within one Execute pass, when an executed node sets a connected
\* output, every node with an input connected to that output executes later
\* in the same pass (hence transitively along chains of nodes that set their
\* outputs), and a node none of whose sources, listeners or own flag carries
\* the pass's Timestamp does not execute.
C2_SinglePassPropagation ==
  PassComplete =>
    LET ran == ExecutedNodes(stack[1]) IN
    /\ \A w \in stack[1].wrote : \A b \in ConsumersOf(w[1], w[2]) :
         \E p, q \in 1..Len(ran) : p < q /\ ran[p] = w[1] /\ ran[q] = b
    /\ \A k \in 1..Len(ran) : StampedNow(stack[1].gs, ran[k])

\* the chain of three ran in one pass, in order, and the fourth node of the
\* graph, which depends on none of them, did not
C2_Witness ==
  /\ PassComplete
  /\ Len(graph.nodes) = 4
  /\ ExecutedNodes(stack[1]) = <<1, 2, 3>>
  /\ stack[1].wrote = {<<1, 1>>, <<2, 1>>}
  /\ ConsumersOf(4, 1) = {}

\* C3: when a pass visits a node, the node's Execute callback is invoked if
\* and only if, at that moment, the node's own timestamp, one of its
\* listeners' timestamps or the timestamp of an output feeding one of its
\* connected inputs equals the instance's Timestamp.
C3_ExecutedIffDirty ==
  [][ (stack # << >> /\ stack[1].op = "Execute"
         /\ stack[1].i <= Len(graph.sorted_nodes))
      => LET n == graph.sorted_nodes[stack[1].i] IN
           /\ StampedNow(stack[1].gs, n) =>
                ExecutedNodes(stack'[1]) = Append(ExecutedNodes(stack[1]), n)
           /\ ~ StampedNow(stack[1].gs, n) =>
                ExecutedNodes(stack'[1]) = ExecutedNodes(stack[1]) ]_vars

\* a pass in which a listener made one node execute, an output another, and
\* a third node was visited and left alone
C3_Witness ==
  /\ PassComplete
  /\ Len(graph.sorted_nodes) = 3
  /\ Len(stack[1].executed) = 2
  /\ \E l \in 1..1 : stack[1].executed[1].listener_dirty = <<TRUE>>
  /\ \E j \in 1..Len(stack[1].executed[2].input_dirty) :
       stack[1].executed[2].input_dirty[j]

\* C8: nodes_finalized() is true only after a FinalizeNodes call that
\* returned true; on a graph that is not finalized Initialize asserts, so no
\* GraphState is initialized from it and no node callback runs.
C8_UnfinalizedIsUnusable ==
  /\ graph.nodes_finalized => finalize = "true"
  /\ finalize # "true" =>
       /\ ~ callbacks
       /\ \A s \in GraphStates : ~ gs[s].graph
       /\ \A k \in 1..Len(stack) : stack[k].op \notin {"Initialize", "Execute"}

\* Initialize was called on a graph that FinalizeNodes had rejected
C8_Witness ==
  /\ finalize = "false"
  /\ aborted
  /\ ~ callbacks

\* the node and listener index a listener offset belongs to
OwnerOf(off) ==
  CHOOSE nl \in UNION { {n} \X (1..Len(graph.nodes[n].listener_offsets)) :
                         n \in 1..Len(graph.nodes) } :
    graph.nodes[nl[1]].listener_offsets[nl[2]] = off

ListenersOfInstance(s) ==
  { [gs |-> s, offset |-> off] : off \in ListenerOffsets(graph) }

\* node n ran in the pass for a reason other than its listener l
OtherCause(entry, l) ==
  \/ entry.node_dirty
  \/ \E k \in 1..Len(entry.listener_dirty) : k # l /\ entry.listener_dirty[k]
  \/ \E j \in 1..Len(entry.input_dirty) : entry.input_dirty[j]

\* C9: in the Execute pass that BroadcastEvent drives for listener L of node
\* N, N's Execute callback runs and IsListenerDirty reads true for L; in a
\* pass on that instance that no broadcast drove for L (the next pass
\* included), IsListenerDirty reads false for L and N runs only for another
\* reason.
C9_ListenerDirtyForOnePass ==
  PassComplete =>
    LET frame == stack[1] IN
    \A L \in ListenersOfInstance(frame.gs) :
      LET N == OwnerOf(L.offset)[1]
          l == OwnerOf(L.offset)[2]
      IN  IF frame.caller = L
            THEN \E k \in 1..Len(frame.executed) :
                   /\ frame.executed[k].node = N
                   /\ frame.executed[k].listener_dirty[l]
            ELSE \A k \in 1..Len(frame.executed) :
                   frame.executed[k].node = N =>
                     /\ ~ frame.executed[k].listener_dirty[l]
                     /\ OtherCause(frame.executed[k], l)

\* the pass right after the one a broadcast drove for a listener: the
\* listener carries the previous Timestamp and its node did not run
C9_Witness ==
  /\ PassComplete
  /\ stack[1].caller = NoListener
  /\ \E L \in ListenersOfInstance(stack[1].gs) :
       /\ gs[L.gs].output_buffer[L.offset].timestamp >= 1
       /\ gs[L.gs].output_buffer[L.offset].timestamp + 1 = gs[L.gs].timestamp
       /\ \A k \in 1..Len(stack[1].executed) :
            stack[1].executed[k].node # OwnerOf(L.offset)[1]

\* the listener slots of the initialized instances, as references
LiveListeners ==
  UNION { ListenersOfInstance(s) : s \in { x \in GraphStates : gs[x].graph } }

\* BroadcastEvent has walked its whole list and is about to return
BroadcastComplete ==
  /\ stack # << >>
  /\ stack[1].op = "Broadcast"
  /\ stack[1].cur = NoListener

\* C10: BroadcastEvent(E) takes the listeners registered under E one by one:
\* it sets the listener's timestamp to its GraphState's Timestamp and at
\* once calls Execute on that GraphState, so it makes one Execute pass per
\* listener reached (an instance with several listeners in the list gets one
\* pass per listener); no listener outside the list is stamped, and with no
\* listener under E nothing changes.
C10_OnePassPerListener ==
  /\ [][ (stack # << >> /\ stack[1].op = "Broadcast" /\ stack[1].cur # NoListener)
         => LET L == stack[1].cur IN
              /\ gs'[L.gs].output_buffer[L.offset].timestamp = gs[L.gs].timestamp
              /\ gs'[L.gs].timestamp = gs[L.gs].timestamp
              /\ Len(stack') = Len(stack) + 1
              /\ stack'[1].op = "Execute"
              /\ stack'[1].gs = L.gs
              /\ stack'[1].i = 1 ]_vars
  /\ [](BroadcastComplete =>
          \A s \in GraphStates :
            /\ stack[1].calls[s] = ListenersOf(stack[1].reached, s)
            /\ gs[s].timestamp = stack[1].before[s] + ListenersOf(stack[1].reached, s))
  /\ [][ \A L \in LiveListeners :
           (L.gs \in DOMAIN gs' /\ gs'[L.gs].graph /\ gs[L.gs].graph
              /\ gs'[L.gs].output_buffer[L.offset].timestamp
                   # gs[L.gs].output_buffer[L.offset].timestamp)
           => /\ stack # << >>
              /\ stack[Len(stack)].op = "Broadcast"
              /\ L \in Range(stack[Len(stack)].reached)
              /\ OwnerOf(L.offset) \in
                   { nl \in (1..Len(graph.nodes)) \X (1..1) :
                       Len(Signatures[graph.nodes[nl[1]].signature].event_listeners) >= nl[2]
                       /\ Signatures[graph.nodes[nl[1]].signature].event_listeners[nl[2]]
                            = stack[Len(stack)].event_id } ]_vars
  /\ [][ ((stack # << >> /\ stack[1].op = "Broadcast" /\ stack[1].reached = << >>)
            \/ (stack = << >> /\ stack' # << >> /\ stack'[1].op = "Broadcast"))
         => UNCHANGED <<graph, gs, broadcasters, aborted>> ]_vars

\* a broadcast that reached two listeners of one instance has made two
\* passes on it
C10_Witness ==
  /\ BroadcastComplete
  /\ Len(stack[1].reached) = 2
  /\ \E s \in GraphStates : stack[1].calls[s] = 2

----------------------------------------------------------------------------
(* Claims about marks, Timestamps and Initialize *)

\* C11: BroadcastEvent(E) only marks: it makes no Execute pass itself, and
\* when it returns every node with a listener under E is dirty, so that its
\* Execute callback runs in the next Execute the caller makes.
C11_BroadcastOnlyMarks ==
  BroadcastComplete =>
    /\ \A s \in GraphStates :
         /\ stack[1].calls[s] = 0
         /\ gs[s].timestamp = stack[1].before[s]
    /\ \A k \in 1..Len(stack[1].reached) :
         LET L == stack[1].reached[k] IN
           /\ gs[L.gs].output_buffer[L.offset].timestamp = gs[L.gs].timestamp
           /\ IsDirty(graph, gs[L.gs], OwnerOf(L.offset)[1])

\* the timestamp kept at offset off of an instance's buffer
StampAt(state, off) ==
  IF off \in ListenerOffsets(graph) THEN state.output_buffer[off].timestamp
  ELSE state.output_buffer[off]

StampOffsets == TimestampOffsets(graph) \cup ListenerOffsets(graph)

\* C12: a dirty mark expires with its pass.  Every node, output or listener
\* timestamp that equals the instance Timestamp when a pass ends differs
\* from it once Execute has returned; so when a pass starts the only stamp
\* that equals the Timestamp is the listener the driving broadcast has just
\* stamped, and a pass nobody stamped anything for runs no callback.
C12_MarksExpire ==
  /\ [][ PassComplete =>
           LET s == stack[1].gs IN
           \A off \in StampOffsets :
             StampAt(gs[s], off) = gs[s].timestamp =>
               StampAt(gs'[s], off) # gs'[s].timestamp ]_vars
  /\ []( (stack # << >> /\ stack[1].op = "Execute" /\ stack[1].i = 1) =>
           \A off \in StampOffsets :
             StampAt(gs[stack[1].gs], off) = gs[stack[1].gs].timestamp =>
               stack[1].caller = [gs |-> stack[1].gs, offset |-> off] )
  /\ []( (PassComplete /\ stack[1].caller = NoListener) =>
           stack[1].executed = << >> )

\* the pass after one in which an output was set: the output still carries
\* the earlier Timestamp and nothing ran
C12_Witness ==
  /\ PassComplete
  /\ stack[1].caller = NoListener
  /\ stack[1].executed = << >>
  /\ \E n \in 1..Len(graph.nodes) :
       /\ graph.nodes[n].output_edges[1].connected
       /\ gs[stack[1].gs].output_buffer[
            graph.nodes[n].output_edges[1].timestamp_offset] >= 1
       /\ gs[stack[1].gs].output_buffer[
            graph.nodes[n].output_edges[1].timestamp_offset] + 1
            = gs[stack[1].gs].timestamp

\* GraphState::Initialize has called every node's callback and is about to
\* advance the Timestamp
InitializeComplete ==
  /\ stack # << >>
  /\ stack[1].op = "Initialize"
  /\ stack[1].i > Len(graph.sorted_nodes)

\* C18: GraphState::Initialize calls the Initialize callback of every node
\* exactly once, each node after the nodes its connected inputs depend on,
\* and when the first callback runs the timestamp of every connected output
\* and of every listener is 0.
C18_InitializeRunsAll ==
  /\ InitializeComplete =>
       LET ran == ExecutedNodes(stack[1]) IN
       /\ \A n \in 1..Len(graph.nodes) :
            Cardinality({ k \in 1..Len(ran) : ran[k] = n }) = 1
       /\ \A d \in Dependencies(graph.nodes) :
            \E p, q \in 1..Len(ran) : p < q /\ ran[p] = d[2] /\ ran[q] = d[1]
  /\ (stack # << >> /\ stack[1].op = "Initialize" /\ stack[1].i = 1) =>
       /\ \A off \in ListenerOffsets(graph) :
            StampAt(gs[stack[1].gs], off) = 0
       /\ \A n \in 1..Len(graph.nodes) :
            \A o \in 1..Len(graph.nodes[n].output_edges) :
              graph.nodes[n].output_edges[o].connected =>
                gs[stack[1].gs].output_buffer[
                  graph.nodes[n].output_edges[o].timestamp_offset] = 0

\* the callbacks ran in an order that is not the order the nodes were added
\* in: the last node added ran first
C18_Witness ==
  /\ InitializeComplete
  /\ Len(graph.nodes) = 3
  /\ ExecutedNodes(stack[1])[1] = 3
  /\ Dependencies(graph.nodes) # {}

\* C19: outputs set by Initialize callbacks do not make their consumers
\* dirty: when Initialize returns no node is dirty, and the first Execute
\* after Initialize, with no broadcast in between, runs no Execute callback.
C19_InitializeMarksNothing ==
  /\ [][ InitializeComplete =>
           \A n \in 1..Len(graph.nodes) :
             ~ IsDirty(graph, gs'[stack[1].gs], n) ]_vars
  /\ []( (PassComplete /\ stack[1].caller = NoListener
            /\ gs[stack[1].gs].timestamp = 1) =>
           stack[1].executed = << >> )

\* the first pass after an Initialize in which a callback set a connected
\* output ran nothing
C19_Witness ==
  /\ PassComplete
  /\ stack[1].caller = NoListener
  /\ gs[stack[1].gs].timestamp = 1
  /\ \E off \in DataOffsets(graph) : gs[stack[1].gs].output_buffer[off] # 0

----------------------------------------------------------------------------
(* Claims about values *)

\* a step in which a node callback (Initialize or Execute) has run
CallbackRan ==
  /\ stack # << >>
  /\ stack[1].op \in {"Initialize", "Execute"}
  /\ Len(stack') = Len(stack)
  /\ Len(stack'[1].executed) = Len(stack[1].executed) + 1

\* the buffer slots SetOutput writes for the outputs in W of node n
SlotsOf(n, W) ==
  UNION { LET edge == graph.nodes[n].output_edges[o] IN
          IF ~ edge.connected THEN {}
          ELSE IF Types[GetOutputEdgeType(graph.nodes[n], o)].size > 0
            THEN {edge.timestamp_offset, edge.data_offset}
          ELSE {edge.timestamp_offset} : o \in W }

\* C16: SetOutput(i, v) from a node callback changes nothing in the instance
\* when output i is unconnected; otherwise the value of output i becomes v
\* and its timestamp the GraphState's Timestamp (for an output of type void
\* only the timestamp); no other output's value or timestamp changes.
C16_SetOutputWritesOneOutput ==
  [][ CallbackRan =>
        LET s     == stack[1].gs
            entry == stack'[1].executed[Len(stack'[1].executed)]
            n     == entry.node
            old   == gs[s].output_buffer
            new   == gs'[s].output_buffer
        IN
        /\ \A o \in entry.set :
             LET edge == graph.nodes[n].output_edges[o] IN
             edge.connected =>
               /\ new[edge.timestamp_offset] = gs[s].timestamp
               /\ Types[GetOutputEdgeType(graph.nodes[n], o)].size > 0 =>
                    new[edge.data_offset] = entry.value
        /\ \A off \in DOMAIN old \ SlotsOf(n, entry.set) : new[off] = old[off]
        /\ DOMAIN new = DOMAIN old
        /\ SlotsOf(n, entry.set) = {} => gs' = gs
        /\ gs'[s].timestamp = gs[s].timestamp
        /\ \A r \in GraphStates \ {s} : gs'[r] = gs[r] ]_vars

\* an Execute callback has set a connected output to MaxValue that held
\* another value it was set to earlier
C16_Witness ==
  /\ stack # << >>
  /\ stack[1].op = "Execute"
  /\ stack[1].executed # << >>
  /\ LET entry == stack[1].executed[Len(stack[1].executed)]
         edge  == graph.nodes[entry.node].output_edges[1]
     IN  /\ entry.set = {1}
         /\ entry.value = MaxValue
         /\ edge.connected
         /\ GetOutputEdgeType(graph.nodes[entry.node], 1) = "Int"
         /\ gs[stack[1].gs].output_buffer[edge.data_offset] = MaxValue
         /\ gs[stack[1].gs].output_buffer[edge.timestamp_offset] = 2
         /\ \E r \in GraphStates \ {stack[1].gs} :
              /\ gs[r].graph
              /\ gs[r].output_buffer[edge.data_offset] = 1

\* C17: after SetDefaultValue(n, e, v) on an unconnected input of a
\* finalized graph, GetInput(e) in node n reads v in every GraphState, in
\* every Initialize and Execute pass, until SetDefaultValue is called again
\* for (n, e); no pass, SetOutput or broadcast changes a default value.
C17_DefaultStaysAsSet ==
  /\ []( \A ne \in DOMAIN set_defaults :
           (/\ ~ graph.nodes[ne[1]].input_edges[ne[2]].connected
            /\ GetInputEdgeType(graph.nodes[ne[1]], ne[2]) = "Int") =>
             /\ \A s \in GraphStates :
                  gs[s].graph =>
                    GetInput(graph, gs[s].output_buffer, ne[1], ne[2])
                      = set_defaults[ne]
             /\ \A k \in 1..Len(stack) : \A j \in 1..Len(stack[k].executed) :
                  stack[k].executed[j].node = ne[1] =>
                    stack[k].executed[j].inputs[ne[2]] = set_defaults[ne] )
  /\ [][ stack # << >> => graph' = graph ]_vars

----------------------------------------------------------------------------
(* Claims about listener lists *)

\* the listeners that exist: those of the initialized instances and the
\* application's
AllListeners ==
  LiveListeners \cup
    (IF listener = NoAppListener THEN {}
     ELSE {AppListenerRef(listener.graph_state)})

\* the listener's event_id()
EventOf(ref) ==
  IF ref.offset = -1 THEN listener.event_id
  ELSE SigOf(graph.nodes[OwnerOf(ref.offset)[1]]).event_listeners[OwnerOf(ref.offset)[2]]

\* the places <<broadcaster, event id, position>> where ref is linked
Where(bc, ref) ==
  { w \in UNION { UNION { { <<b, e, i>> : i \in 1..Len(bc[b][e]) } :
                          e \in DOMAIN bc[b] } : b \in DOMAIN bc } :
      bc[w[1]][w[2]][w[3]] = ref }

\* C14: after any sequence of RegisterListener / BindBroadcaster calls on
\* any number of broadcasters every listener is in at most one listener list
\* in total, the list for its own event id on the broadcaster it was last
\* registered with.
C14_ListenerInOneList ==
  /\ [](\A ref \in AllListeners :
          /\ Cardinality(Where(broadcasters, ref)) <= 1
          /\ \A w \in Where(broadcasters, ref) : w[2] = EventOf(ref)
          /\ \A b \in Broadcasters :
               LET after == RegisterListener(broadcasters, b, ref, EventOf(ref))
               IN  /\ Cardinality(Where(after, ref)) = 1
                   /\ \A w \in Where(after, ref) :
                        w[1] = b /\ w[2] = EventOf(ref)
                   /\ \A other \in AllListeners \ {ref} :
                        { <<w[1], w[2]>> : w \in Where(after, other) }
                          = { <<w[1], w[2]>> : w \in Where(broadcasters, other) })
  /\ [][ broadcasters' # broadcasters =>
           \A ref \in AllListeners :
             { <<w[1], w[2]>> : w \in Where(broadcasters', ref) }
               # { <<w[1], w[2]>> : w \in Where(broadcasters, ref) }
             => \E b \in Broadcasters :
                  Where(broadcasters', ref) =
                    Where(RegisterListener(broadcasters, b, ref, EventOf(ref)),
                          ref)
      ]_vars

\* a listener registered with B1 has moved to B2's list, where it follows
\* another listener; B1's list for the event is left empty
C14_Witness ==
  \E e \in EventIds :
    /\ e \in DOMAIN broadcasters["B1"]
    /\ broadcasters["B1"][e] = << >>
    /\ e \in DOMAIN broadcasters["B2"]
    /\ Len(broadcasters["B2"][e]) >= 2
    /\ listener # NoAppListener
    /\ broadcasters["B2"][e][Len(broadcasters["B2"][e])]
         = AppListenerRef(listener.graph_state)

\* C15: registering a listener that is already in this broadcaster's list
\* for its event id leaves that list's members and order unchanged, and a
\* later BroadcastEvent delivers to that listener once, not twice.
C15_RegisterListenerIdempotent ==
  /\ [](\A ref \in AllListeners : \A b \in Broadcasters :
          ref \in Range(ListenerList(broadcasters, b, EventOf(ref))) =>
            RegisterListener(broadcasters, b, ref, EventOf(ref)) = broadcasters)
  /\ [](BroadcastComplete =>
          LET list == ListenerList(broadcasters, stack[1].broadcaster,
                                   stack[1].event_id)
          IN  /\ \A i, j \in 1..Len(list) : list[i] = list[j] => i = j
              /\ \A s \in GraphStates :
                   stack[1].calls[s] = ListenersOf(list, s))

\* a broadcast has delivered to a list of three listeners in which the
\* application's listener, registered before a node's, is not the last
C15_Witness ==
  /\ BroadcastComplete
  /\ listener # NoAppListener
  /\ LET list == ListenerList(broadcasters, stack[1].broadcaster,
                              stack[1].event_id)
         app  == AppListenerRef(listener.graph_state)
     IN  /\ Len(list) = 3
         /\ app \in Range(list)
         /\ list[3] # app
         /\ stack[1].calls[listener.graph_state] >= 2
         /\ listener.timestamp >= 1

----------------------------------------------------------------------------
(* Claims about the Timestamp *)

\* C13: a GraphState's Timestamp is 0 at construction, Initialize and each
\* Execute call increase it by one, it only grows and never takes again a
\* value it had earlier; hence a stamp left at an old value, the initial 0 of
\* never-written outputs, listeners and node flags included, never equals the
\* Timestamp in a later pass: when a pass starts, the only stamp equal to the
\* Timestamp is the listener the driving broadcast has just stamped.
C13_TimestampNeverRepeats ==
  /\ [](\A s \in GraphStates : ~ gs[s].graph => gs[s].timestamp = 0)
  /\ [][ \A s \in GraphStates :
           gs'[s].timestamp # gs[s].timestamp =>
             TimestampLess(gs[s].timestamp, gs'[s].timestamp) ]_vars
  /\ [][ (/\ stack # << >>
          /\ stack[1].op \in {"Initialize", "Execute"}
          /\ Len(stack') = Len(stack) - 1)
         => /\ gs'[stack[1].gs].timestamp = gs[stack[1].gs].timestamp + 1
            /\ \A r \in GraphStates \ {stack[1].gs} :
                 gs'[r].timestamp = gs[r].timestamp ]_vars
  /\ []( (stack # << >> /\ stack[1].op = "Execute" /\ stack[1].i = 1) =>
           \A off \in StampOffsets :
             StampAt(gs[stack[1].gs], off) = gs[stack[1].gs].timestamp =>
               stack[1].caller = [gs |-> stack[1].gs, offset |-> off] )

----------------------------------------------------------------------------
(* Claims about the sample graph *)

\* the scenario has one instance of the graph
OneInstance == gs[1].graph /\ ~ gs[2].graph

\* the stored value of the output of the accumulator (node1, second node)
AccumulatorOutput(gstates) ==
  gstates[1].output_buffer[graph.nodes[2].output_edges[1].data_offset]

\* the listener of the emitter (node0, first node) in instance 1
EmitterListener == [gs |-> 1, offset |-> graph.nodes[1].listener_offsets[1]]

\* C20 as stated: for emitter -> accumulator -> sink, after Initialize and
\* one Execute the accumulator's output is 1; after a second Execute with
\* the emitter marked again it is 2.
C20_SampleScenario ==
  /\ []( (OneInstance /\ stack = << >> /\ graph.nodes_finalized
          /\ gs[1].timestamp = 2) => AccumulatorOutput(gs) = 1 )
  /\ [][ (/\ OneInstance /\ PassComplete
          /\ stack[1].caller = EmitterListener
          /\ gs[1].timestamp = 2
          /\ Len(stack') = Len(stack) - 1)
         => AccumulatorOutput(gs') = 2 ]_vars

\* C20, amended: the accumulator's output is 0 after Initialize; an Execute
\* pass that BroadcastEvent drives for the emitter's listener adds one to it,
\* so that it is 1 after the first such pass and 2 after the second; an
\* Execute pass nothing was marked for leaves it as it is.
C20_SampleCountsDrivenPasses ==
  /\ []( (OneInstance /\ stack = << >> /\ gs[1].timestamp = 1) =>
           AccumulatorOutput(gs) = 0 )
  /\ []( (OneInstance /\ PassComplete /\ gs[1].timestamp = 1) =>
           AccumulatorOutput(gs) =
             (IF stack[1].caller = EmitterListener THEN 1 ELSE 0) )
  /\ [][ (/\ OneInstance /\ stack # << >> /\ stack[1].op = "Execute"
          /\ Len(stack') = Len(stack))
         => IF stack[1].caller = EmitterListener
               /\ stack[1].i <= Len(graph.sorted_nodes)
               /\ graph.sorted_nodes[stack[1].i] = 2
              THEN AccumulatorOutput(gs') = AccumulatorOutput(gs) + 1
              ELSE AccumulatorOutput(gs') = AccumulatorOutput(gs) ]_vars
  /\ []( (OneInstance /\ PassComplete /\ stack[1].caller = EmitterListener) =>
           /\ ExecutedNodes(stack[1]) = <<1, 2, 3>>
           /\ AccumulatorOutput(gs) = counters[2] )
  /\ [][ (OneInstance /\ stack = << >> /\ stack' = << >>) =>
           AccumulatorOutput(gs') = AccumulatorOutput(gs) ]_vars

\* the second pass driven for the emitter's listener is complete and the
\* accumulator's output is 2
C20_Witness ==
  /\ OneInstance
  /\ PassComplete
  /\ stack[1].caller = EmitterListener
  /\ gs[1].timestamp = 2
  /\ AccumulatorOutput(gs) = 2
  /\ counters[3] = 3

----------------------------------------------------------------------------
(* Claims about instances *)

\* the GraphState a step of Initialize or Execute works on: the instance of
\* the frame on top of the call stack before the step, or of the
\* frame the step pushes; 0 for any other step
InstanceOfStep ==
  IF stack # << >> /\ stack[1].op \in {"Initialize", "Execute"}
    THEN stack[1].gs
  ELSE IF /\ Len(stack') = Len(stack) + 1
          /\ stack'[1].op \in {"Initialize", "Execute"}
    THEN stack'[1].gs
  ELSE 0

\* C21: Initialize, Execute and the SetOutput calls of their callbacks on
\* one GraphState leave every other GraphState of the Graph unchanged (output
\* values, output, listener and node timestamps, Timestamp counter) and leave
\* the Graph's default-value buffer unchanged.
C21_OtherInstancesUnchanged ==
  [][ InstanceOfStep # 0 =>
        /\ \A r \in GraphStates \ {InstanceOfStep} : gs'[r] = gs[r]
        /\ graph'.input_buffer = graph.input_buffer ]_vars

\* a callback of a pass on instance 2 has just set an output to MaxValue
\* while instance 1 holds another value there, another stamp and another
\* Timestamp
C21_Witness ==
  /\ stack # << >>
  /\ stack[1].op = "Execute"
  /\ stack[1].gs = 2
  /\ stack[1].executed # << >>
  /\ gs[1].graph
  /\ gs[1].timestamp # gs[2].timestamp
  /\ LET entry == stack[1].executed[Len(stack[1].executed)]
         edge  == graph.nodes[entry.node].output_edges[1]
     IN  /\ entry.set = {1}
         /\ entry.value = MaxValue
         /\ edge.connected
         /\ GetOutputEdgeType(graph.nodes[entry.node], 1) = "Int"
         /\ gs[2].output_buffer[edge.data_offset] = MaxValue
         /\ gs[1].output_buffer[edge.data_offset] = 1
         /\ gs[1].output_buffer[edge.timestamp_offset]
              # gs[2].output_buffer[edge.timestamp_offset]

----------------------------------------------------------------------------
(* Claims about termination *)

\* C22: every call of GraphState::Initialize, GraphState::Execute and
\* NodeEventBroadcaster::BroadcastEvent returns after finitely many node
\* callbacks, also when an Execute callback itself calls BroadcastEvent for
\* an event whose listener belongs to the GraphState that is executing.
C22_CallsReturn ==
  [](stack # << >> => <>(stack = << >>))

----------------------------------------------------------------------------
(* Claims about destruction *)

\* how often the last destructor ran the destroy operation of kind on the
\* object a call names by field (its offset, or its node)
TimesDestroyed(kind, field, x) ==
  Cardinality({ k \in 1..Len(destroyed.calls) :
                  /\ destroyed.calls[k].kind = kind
                  /\ destroyed.calls[k][field] = x })

\* every default value FinalizeNodes constructed is destroyed exactly once
DefaultsDestroyedOnce ==
  /\ \A off \in DOMAIN graph.input_buffer.values :
       TimesDestroyed("default", "offset", off) = 1
  /\ \A k \in 1..Len(destroyed.calls) :
       destroyed.calls[k].kind = "default" =>
         /\ destroyed.calls[k].offset \in DOMAIN graph.input_buffer.values
         /\ <<destroyed.calls[k].node, destroyed.calls[k].index>>
              \in graph.input_buffer.constructed

\* every behavior object AddNode constructed is destroyed exactly once
BehaviorsDestroyedOnce ==
  \A n \in 1..Len(graph.nodes) : TimesDestroyed("behavior", "node", n) = 1

\* C23: destroying a finalized Graph runs the destroy operation exactly once
\* on every default value it constructed, and destroys exactly once, through
\* the signature's destructor, every behavior object AddNode constructed.
C23_GraphDestroysWhatItOwns ==
  (destroyed.object = "Graph" /\ destroyed.initialized) =>
    (DefaultsDestroyedOnce /\ BehaviorsDestroyedOnce)

\* the half of C23 about default values
C23_DefaultsHalf ==
  (destroyed.object = "Graph" /\ destroyed.initialized) =>
    (~ aborted /\ DefaultsDestroyedOnce)

\* C24: destroying an initialized GraphState runs the destroy operation
\* exactly once on each value and each listener Initialize constructed (and
\* on the Timestamp of each connected output) and on nothing else;
\* destroying a GraphState never initialized destroys nothing.
C24_GraphStateDestroysWhatItConstructed ==
  destroyed.object = "GraphState" =>
    IF destroyed.initialized
      THEN /\ \A off \in DataOffsets(graph) :
                TimesDestroyed("value", "offset", off) = 1
           /\ \A off \in ListenerOffsets(graph) :
                TimesDestroyed("listener", "offset", off) = 1
           /\ \A k \in 1..Len(destroyed.calls) :
                LET c == destroyed.calls[k]
                IN  /\ c.kind \in {"value", "listener", "timestamp"}
                    /\ c.kind = "value" => c.offset \in DataOffsets(graph)
                    /\ c.kind = "listener" => c.offset \in ListenerOffsets(graph)
                    /\ c.kind = "timestamp" =>
                         /\ c.offset \in TimestampOffsets(graph)
                         /\ graph.nodes[c.node].output_edges[c.index].connected
                         /\ TimesDestroyed("timestamp", "offset", c.offset) = 1
      ELSE destroyed.calls = << >>

\* an initialized instance with a value and a listener has been destroyed
C24_Witness ==
  /\ destroyed.object = "GraphState" /\ destroyed.initialized
  /\ \E k \in 1..Len(destroyed.calls) : destroyed.calls[k].kind = "value"
  /\ \E k \in 1..Len(destroyed.calls) : destroyed.calls[k].kind = "listener"
  /\ \E n \in 1..Len(graph.nodes), o \in 1..1 :
       ~ graph.nodes[n].output_edges[o].connected

----------------------------------------------------------------------------
(* Claims about the arguments of callbacks *)

\* the index of the call names no declared input (output) of its node, or
\* the type is not the declared one
BadArguments(call) ==
  LET sig == SigOf(graph.nodes[call.node])
      declared == IF call.op = "GetInput" THEN sig.input_parameters
                                          ELSE sig.output_parameters
  IN  \/ call.index \notin 1..Len(declared)
      \/ declared[call.index] # call.type

\* C25: GetInput and SetOutput with an index outside the node's declared
\* inputs or outputs, or with a type other than the declared one, stop with
\* a fatal assertion, return nothing and change no output value or
\* timestamp.
C25_BadArgumentsAreFatal ==
  [][ (last_call' # last_call /\ BadArguments(last_call')) =>
        /\ aborted'
        /\ ~ last_call'.returned /\ last_call'.result = << >>
        /\ gs' = gs ]_vars

\* a callback has called GetInput on a connected input with a type that
\* is not the declared one, after values had been written
C25_Witness ==
  /\ aborted /\ last_call.op = "GetInput" /\ BadArguments(last_call)
  /\ last_call.index \in 1..Len(graph.nodes[last_call.node].input_edges)
  /\ graph.nodes[last_call.node].input_edges[last_call.index].connected
  /\ \E s \in GraphStates :
       /\ gs[s].graph /\ gs[s].timestamp > 1
       /\ \E off \in DataOffsets(graph) : gs[s].output_buffer[off] # 0

----------------------------------------------------------------------------
(* Claims about the registry *)

\* the step is a call on the registry
RegistryCall == registered' # registered \/ modules' # modules

\* C26: registering a module name the registry already has, or a node name
\* the module already has, is rejected without a crash: RegisterModule
\* returns null, OnRegister is not called, and the first registration is
\* unchanged and still what GetModule and GetNodeSignature return.
C26_DuplicateRegistrationRejected ==
  [][ RegistryCall =>
        LET call == registered'
            name == call.module
        IN  /\ (call.op = "RegisterModule" /\ name \in DOMAIN modules) =>
                 /\ ~ call.result
                 /\ ~ aborted'
                 /\ GetModule(modules', name) = <<modules[name]>>
                 /\ modules' = modules
            /\ (call.op = "RegisterNode"
                  /\ call.node \in DOMAIN modules[name].signatures) =>
                 /\ ~ call.on_register
                 /\ ~ aborted'
                 /\ GetModule(modules', name) = <<modules[name]>>
                 /\ GetNodeSignature(modules'[name], call.node)
                      = <<modules[name].signatures[call.node]>>
                 /\ modules' = modules ]_vars

\* a node name has been registered a second time, for another class, in a
\* module whose name has been registered twice too
C26_Witness ==
  /\ registered.op = "RegisterNode" /\ ~ registered.on_register
  /\ registered.module \in DOMAIN modules
  /\ registered.node \in DOMAIN modules[registered.module].signatures
  /\ modules[registered.module].signatures[registered.node].constructor
       # registered.class
  /\ modules[registered.module].signatures[registered.node].output_parameters
       # << >>
  /\ DOMAIN modules = ModuleNames

----------------------------------------------------------------------------
(* Claims about the main function of the sample *)

\* C27: in the event_counter sample, with the stand-alone listener of the
\* same GraphState registered on the same broadcaster, every BroadcastEvent
\* makes CaptureEvent, CountEvent and PrintEvent each execute exactly once,
\* in that order; after n broadcasts the counter is n and PrintEvent has
\* logged the values 1..n.
C27_SampleCountsBroadcasts ==
  /\ []( (stack # << >> /\ stack[1].op = "Broadcast") =>
           /\ stack[1].reached = <<EmitterListener, AppListenerRef(1)>>
           /\ stack[1].cur = NoListener => stack[1].calls[1] = 2 )
  /\ []( (PassComplete /\ loop > 0) =>
           ExecutedNodes(stack[1]) =
             (IF stack[1].caller = EmitterListener THEN <<1, 2, 3>>
                                                   ELSE << >>) )
  /\ []( stack = << >> =>
           /\ counters[2] = loop
           /\ log = [k \in 1..loop |-> Decimal(k)] )

\* the loop of main has ended, the last line logged has two digits
C27_Witness ==
  /\ stack = << >>
  /\ loop = MaxLoop
  /\ counters[2] = loop
  /\ Len(log) = loop
  /\ Len(log[loop]) = 2

----------------------------------------------------------------------------
(* Claims about the values GetInput reads *)

\* the inputs and outputs of the graph that hold a value
ValueInputs(n) ==
  { i \in 1..Len(graph.nodes[n].input_edges) :
      Types[GetInputEdgeType(graph.nodes[n], i)].size > 0 }

ValueOutputs(n) ==
  { o \in 1..Len(graph.nodes[n].output_edges) :
      /\ graph.nodes[n].output_edges[o].connected
      /\ Types[GetOutputEdgeType(graph.nodes[n], o)].size > 0 }

\* where the value of the output lives that input i of node n is wired to
SourceSlot(n, i) ==
  LET target == graph.nodes[n].input_edges[i].target
  IN  graph.nodes[target.node_index].output_edges[target.edge_index].data_offset

\* C28: GetInput(i) on a connected input reads, in this GraphState, the
\* value most recently written by SetOutput to the source output (the
\* default-constructed value if it was never written), on an unconnected
\* input the Graph's shared default value; never a value of another
\* instance or another edge.  In steps: a callback reads what the slot of
\* the source output holds in its instance, or what the input's own slot of
\* the default buffer holds; the slot of an output starts default-constructed
\* and changes only when a callback of its node in that instance sets that
\* output, to the value set; and no two edges share a slot.
C28_GetInputReadsSource ==
  /\ [][ CallbackRan =>
           LET s     == stack[1].gs
               entry == stack'[1].executed[Len(stack'[1].executed)]
               n     == entry.node
           IN  \A i \in ValueInputs(n) :
                 entry.inputs[i] =
                   IF graph.nodes[n].input_edges[i].connected
                     THEN gs[s].output_buffer[SourceSlot(n, i)]
                     ELSE graph.input_buffer.values[
                            graph.nodes[n].input_edges[i].data_offset] ]_vars
  /\ [][ gs' # gs => \A s \in GraphStates :
           /\ (~ gs[s].graph /\ gs'[s].graph) =>
                \A off \in DataOffsets(graph) : gs'[s].output_buffer[off] = 0
           /\ (gs[s].graph /\ gs'[s].graph) =>
                \A off \in DataOffsets(graph) :
                  gs'[s].output_buffer[off] # gs[s].output_buffer[off] =>
                    /\ CallbackRan
                    /\ stack[1].gs = s
                    /\ LET entry == stack'[1].executed[Len(stack'[1].executed)]
                       IN  /\ \E o \in entry.set \cap ValueOutputs(entry.node) :
                                graph.nodes[entry.node].output_edges[o].data_offset
                                  = off
                           /\ gs'[s].output_buffer[off] = entry.value ]_vars
  /\ []( graph.nodes_finalized =>
           /\ \A n1, n2 \in 1..Len(graph.nodes) :
                \A o1 \in ValueOutputs(n1), o2 \in ValueOutputs(n2) :
                  graph.nodes[n1].output_edges[o1].data_offset
                    = graph.nodes[n2].output_edges[o2].data_offset
                  => (n1 = n2 /\ o1 = o2)
           /\ \A d1, d2 \in DefaultValues(graph.nodes) :
                graph.nodes[d1[1]].input_edges[d1[2]].data_offset
                  = graph.nodes[d2[1]].input_edges[d2[2]].data_offset
                => d1 = d2 )

\* a callback has read a connected input and an unconnected one with
\* different values, while the other instance holds another value for the
\* same source output
C28_Witness ==
  /\ stack # << >>
  /\ stack[1].op = "Execute"
  /\ stack[1].executed # << >>
  /\ LET entry == stack[1].executed[Len(stack[1].executed)]
         n     == entry.node
     IN  /\ graph.nodes[n].signature = "Join"
         /\ graph.nodes[n].input_edges[1].connected
         /\ ~ graph.nodes[n].input_edges[2].connected
         /\ entry.inputs[1] = MaxValue
         /\ entry.inputs[2] = 1
         /\ \E r \in GraphStates \ {stack[1].gs} :
              /\ gs[r].graph
              /\ gs[r].output_buffer[SourceSlot(n, 1)] = 1

----------------------------------------------------------------------------
(* Claims about the layout FinalizeNodes assigns *)

\* an object placed in a buffer
Slot(kind, n, index, offset, size, alignment) ==
  [ kind |-> kind, node |-> n, index |-> index, offset |-> offset,
    size |-> size, alignment |-> alignment ]

\* the bytes of a slot
Bytes(slot) == slot.offset..(slot.offset + slot.size - 1)

\* what lives in the per-instance buffer: a Timestamp per node, a Timestamp
\* and a value per connected output, a listener per listener declaration
InstanceSlots ==
  { Slot("node", n, 0, graph.nodes[n].timestamp_offset,
         kTimestampSize, kTimestampSize) : n \in 1..Len(graph.nodes) }
  \cup
  UNION { LET edge == graph.nodes[no[1]].output_edges[no[2]]
              type == Types[GetOutputEdgeType(graph.nodes[no[1]], no[2])]
          IN  { Slot("timestamp", no[1], no[2], edge.timestamp_offset,
                     kTimestampSize, kTimestampSize),
                Slot("value", no[1], no[2], edge.data_offset,
                     type.size, type.alignment) } :
          no \in ConnectedOutputs(graph.nodes) }
  \cup
  { Slot("listener", nl[1], nl[2],
         graph.nodes[nl[1]].listener_offsets[nl[2]],
         kListenerSize, kListenerAlign) :
      nl \in UNION { {n} \X (1..Len(graph.nodes[n].listener_offsets)) :
                      n \in 1..Len(graph.nodes) } }

\* what lives in the default-value buffer: a value per unconnected input
DefaultSlots ==
  { LET type == Types[GetInputEdgeType(graph.nodes[nj[1]], nj[2])]
    IN  Slot("default", nj[1], nj[2],
             graph.nodes[nj[1]].input_edges[nj[2]].data_offset,
             type.size, type.alignment) :
      nj \in { x \in UNION { {n} \X (1..Len(graph.nodes[n].input_edges)) :
                              n \in 1..Len(graph.nodes) } :
                 ~ graph.nodes[x[1]].input_edges[x[2]].connected } }

\* the slots are pairwise disjoint, inside a buffer of size bytes, aligned
WellPlaced(slots, size) ==
  /\ \A a, b \in slots : a # b => Bytes(a) \cap Bytes(b) = {}
  /\ \A a \in slots : Bytes(a) \subseteq 0..(size - 1)
  /\ \A a \in slots : a.offset % a.alignment = 0

\* C29: after a successful FinalizeNodes the byte ranges assigned in the
\* per-instance buffer (a Timestamp per node, a Timestamp and a value per
\* connected output, a listener per listener declaration) are pairwise
\* disjoint, inside [0, output_buffer_size) and aligned for their type; so
\* are the default values of the unconnected inputs in the default buffer.
C29_LayoutIsDisjointAndAligned ==
  finalize = "true" =>
    /\ \A n \in 1..Len(graph.nodes) :
         Len(graph.nodes[n].listener_offsets)
           = Len(SigOf(graph.nodes[n]).event_listeners)
    /\ WellPlaced(InstanceSlots, graph.output_buffer_size)
    /\ WellPlaced(DefaultSlots, graph.input_buffer.size)

\* a finalized graph with a default value, a value on a connected output
\* and a listener that alignment moved past the end of what precedes it
C29_Witness ==
  /\ finalize = "true"
  /\ \E a \in DefaultSlots : a.size > 0
  /\ \E a \in InstanceSlots : a.kind = "value" /\ a.size > 0
  /\ \E a \in InstanceSlots :
       /\ a.kind = "listener"
       /\ \A b \in InstanceSlots : (a.offset - 1) \notin Bytes(b)

\* where the slots of the per-instance buffer end
EndOfSlots ==
  LET ends == { a.offset + a.size : a \in InstanceSlots }
  IN  IF ends = {} THEN 0 ELSE CHOOSE e \in ends : \A f \in ends : f <= e

\* C30: after a successful FinalizeNodes an output edge is connected if and
\* only if an input edge of some node targets it, and only connected
\* outputs are given a timestamp slot and a value slot in the per-instance
\* buffer: the others keep the offsets they were constructed with, and the
\* buffer ends where the last slot of a node, a connected output or a
\* listener ends.
C30_ConnectedIffTargeted ==
  finalize = "true" =>
    /\ ConnectedOutputs(graph.nodes) = TargetedOutputs(pre.nodes, Len(pre.nodes))
    /\ \A n \in 1..Len(graph.nodes) :
         /\ Len(graph.nodes[n].output_edges)
              = Len(SigOf(graph.nodes[n]).output_parameters)
         /\ \A o \in 1..Len(graph.nodes[n].output_edges) :
              LET edge == graph.nodes[n].output_edges[o] IN
              IF edge.connected
                THEN /\ edge.timestamp_offset
                          >= graph.nodes[n].timestamp_offset + kTimestampSize
                     /\ edge.data_offset >= edge.timestamp_offset + kTimestampSize
                ELSE edge = NewOutputEdge
    /\ graph.output_buffer_size = EndOfSlots

\* a finalized graph with an output two inputs target and an output no
\* input targets
C30_Witness ==
  /\ finalize = "true"
  /\ \E n \in 1..Len(graph.nodes) :
       /\ graph.nodes[n].output_edges[1].connected
       /\ Cardinality({ aj \in UNION { {a} \X (1..Len(graph.nodes[a].input_edges)) :
                                        a \in 1..Len(graph.nodes) } :
                          /\ graph.nodes[aj[1]].input_edges[aj[2]].connected
                          /\ graph.nodes[aj[1]].input_edges[aj[2]].target.node_index
                               = n }) = 2
  /\ \E n \in 1..Len(graph.nodes) : ~ graph.nodes[n].output_edges[1].connected

----------------------------------------------------------------------------
(* Claims about setting default values *)

\* the step is a SetDefaultValue call on a finalized graph
SetDefaultValueStep ==
  /\ graph.nodes_finalized
  /\ last_call'.op = "SetDefaultValue"
  /\ last_call' # last_call \/ graph' # graph

\* the call names an unconnected input edge of the declared type
LegalDefault(call) ==
  /\ call.node \in 1..Len(graph.nodes)
  /\ call.index \in 1..Len(graph.nodes[call.node].input_edges)
  /\ GetInputEdgeType(graph.nodes[call.node], call.index) = call.type
  /\ ~ graph.nodes[call.node].input_edges[call.index].connected

\* the default value of input edge d = <<n, e>> in graph g
DefaultOf(g, d) ==
  g.input_buffer.values[g.nodes[d[1]].input_edges[d[2]].data_offset]

\* C31: SetDefaultValue(n, e, v) changes at most the default value of input
\* edge (n, e); when n or e is out of range, the type differs from the
\* declared one, or the edge is connected, no default value changes.
C31_SetDefaultValueFrame ==
  [][ SetDefaultValueStep =>
        \A d \in DefaultValues(graph.nodes) :
          (d # <<last_call'.node, last_call'.index>> \/ ~ LegalDefault(last_call'))
            => DefaultOf(graph', d) = DefaultOf(graph, d) ]_vars

\* C31 for the calls that name an unconnected edge or one that does not
\* exist: what SetDefaultValue does when the edge is not connected
C31_UnconnectedHalf ==
  [][ (/\ SetDefaultValueStep
       /\ ~ (/\ last_call'.node \in 1..Len(graph.nodes)
             /\ last_call'.index
                  \in 1..Len(graph.nodes[last_call'.node].input_edges)
             /\ graph.nodes[last_call'.node].input_edges[last_call'.index]
                  .connected)) =>
        \A d \in DefaultValues(graph.nodes) :
          (d # <<last_call'.node, last_call'.index>> \/ ~ LegalDefault(last_call'))
            => DefaultOf(graph', d) = DefaultOf(graph, d) ]_vars

----------------------------------------------------------------------------
(* Claims about one pass *)

\* C32: during one pass of GraphState::Execute each node's Execute callback
\* is invoked at most once, whatever outputs are written after the node
\* was visited.
C32_NodeRunsOncePerPass ==
  \A k \in 1..Len(stack) :
    stack[k].op = "Execute" =>
      \A p, q \in 1..Len(stack[k].executed) :
        stack[k].executed[p].node = stack[k].executed[q].node => p = q

\* a pass has run three nodes, two of which set a connected output after
\* the first had been visited
C32_Witness ==
  /\ PassComplete
  /\ Len(stack[1].executed) >= 3
  /\ Cardinality(stack[1].wrote) >= 2
  /\ \E o \in stack[1].wrote : o[1] # stack[1].executed[1].node

----------------------------------------------------------------------------
(* Claims about binding during a broadcast *)

\* how many Execute calls the broadcast of the frame has made
RECURSIVE Deliveries(_, _)
Deliveries(frame, s) ==
  IF s = 0 THEN 0 ELSE frame.calls[s] + Deliveries(frame, s - 1)

\* C33: when an Execute callback binds its listener again to the
\* broadcaster it is registered on while that broadcaster is in the middle
\* of BroadcastEvent, every listener that was in the list when the
\* broadcast began is stamped and executed exactly once: the k-th delivery
\* goes to the k-th listener of that list, and the broadcast does not
\* return before the last of them.
C33_RebindKeepsDelivery ==
  /\ [][ (stack # << >> /\ stack[1].op = "Broadcast" /\ stack[1].cur # NoListener)
         => LET L == stack[1].cur
                k == Deliveries(stack[1], NumStates) + 1
            IN  /\ IF k <= Len(stack[1].reached)
                     THEN L = stack[1].reached[k]
                     ELSE L \notin Range(stack[1].reached)
                /\ gs'[L.gs].output_buffer[L.offset].timestamp = gs[L.gs].timestamp
                /\ stack'[1].op = "Execute"
                /\ stack'[1].gs = L.gs
                /\ Deliveries(stack'[2], NumStates) = k ]_vars
  /\ [](BroadcastComplete =>
          Deliveries(stack[1], NumStates) >= Len(stack[1].reached))

\* a broadcast over three listeners has returned from all of them, and the
\* callback of the first one bound its listener again during its pass
C33_Witness ==
  /\ BroadcastComplete
  /\ Len(stack[1].reached) = 3
  /\ last_call.op = "BindBroadcaster"
  /\ last_call.returned
  /\ last_call.result[1] = stack[1].reached[1].gs
  /\ last_call.result[2] = stack[1].before[stack[1].reached[1].gs]
  /\ [gs |-> last_call.result[1],
      offset |-> graph.nodes[last_call.node].listener_offsets[1]]
       = stack[1].reached[1]

----------------------------------------------------------------------------
(* Claims about destroying a Graph that is not finalized *)

\* C34: destroying a Graph that was never finalized, or whose FinalizeNodes
\* returned false, hits no assertion, indexes no edge vector past its end,
\* and runs the destroy operation only on default values that were
\* constructed.
C34_UnfinalizedGraphDestroyedSafely ==
  (destroyed.object = "Graph" /\ ~ destroyed.initialized) =>
    /\ ~ aborted
    /\ ~ GraphDestructor(graph, 1, 1, << >>).undefined
    /\ \A k \in 1..Len(destroyed.calls) :
         <<destroyed.calls[k].node, destroyed.calls[k].index>>
           \in graph.input_buffer.constructed

\* the part of C34 that holds: when FinalizeNodes got as far as sorting
\* (it failed on a cycle or a type mismatch), the destructor destroys each
\* constructed default value once and nothing else
C34_AfterFailedSort ==
  (destroyed.object = "Graph" /\ ~ destroyed.initialized
     /\ finalize = "false" /\ EdgeCountsMatch(graph.nodes)) =>
    (~ aborted /\ DefaultsDestroyedOnce)

\* a Graph rejected for its cycle has been deleted, default value destroyed
C34_FailedSortDestroyed ==
  /\ destroyed.object = "Graph" /\ ~ destroyed.initialized
  /\ finalize = "false" /\ EdgeCountsMatch(graph.nodes)
  /\ Len(destroyed.calls) = 1

----------------------------------------------------------------------------
(* Claims about calling FinalizeNodes again *)

\* a step in which FinalizeNodes was called on a graph it had accepted
FinalizeAgainStep ==
  /\ last_call' # last_call
  /\ last_call'.op = "FinalizeNodes"
  /\ finalize = "true"

\* the sorted order, the offsets of nodes and edges and the size of the
\* instance buffer are the same in g and h
SameOrderAndOffsets(g, h) ==
  /\ h.sorted_nodes = g.sorted_nodes
  /\ h.output_buffer_size = g.output_buffer_size
  /\ Len(h.nodes) = Len(g.nodes)
  /\ \A n \in 1..Len(g.nodes) :
       /\ h.nodes[n].timestamp_offset = g.nodes[n].timestamp_offset
       /\ h.nodes[n].input_edges = g.nodes[n].input_edges
       /\ h.nodes[n].output_edges = g.nodes[n].output_edges

\* C35: FinalizeNodes is one-shot: called again on a Graph for which it
\* returned true, it changes neither the sorted order, nor any offset, nor
\* the number of listener offsets, nor output_buffer_size, and constructs no
\* default value a second time (it does not reach the buffer's
\* initialization again).
C35_FinalizeNodesOneShot ==
  [][ FinalizeAgainStep =>
        /\ SameOrderAndOffsets(graph, graph')
        /\ \A n \in 1..Len(graph.nodes) :
             Len(graph'.nodes[n].listener_offsets)
               = Len(graph.nodes[n].listener_offsets)
        /\ graph'.input_buffer = graph.input_buffer
        /\ ~ aborted' ]_vars

\* the part of C35 that holds: the sorted order, the offsets of nodes and
\* edges and output_buffer_size stay as they were, and the call returns
\* true when it returns
C35_OrderAndOffsetsKept ==
  [][ FinalizeAgainStep =>
        /\ SameOrderAndOffsets(graph, graph')
        /\ (~ aborted' => finalize' = "true") ]_vars

----------------------------------------------------------------------------
(* Claims about indices given to NodeArguments *)

\* the call's index names no input edge, output edge or listener of its node
OutOfRange(call) ==
  LET node == graph.nodes[call.node]
  IN  call.index \notin
        (IF call.op \in {"GetInput", "IsInputDirty"}
           THEN 1..Len(node.input_edges)
         ELSE IF call.op = "SetOutput"
           THEN 1..Len(node.output_edges)
         ELSE 1..Len(node.listener_offsets))

\* the call stopped in an assertion, having read and changed nothing
Rejected(call) ==
  /\ aborted'
  /\ ~ call.returned /\ call.result = << >>
  /\ call.type # "undefined"
  /\ gs' = gs /\ broadcasters' = broadcasters

\* C36: every operation of NodeArguments that takes an index (GetInput,
\* SetOutput, IsInputDirty, IsListenerDirty, BindBroadcaster) rejects an
\* index out of range with an assertion before it reads any edge or
\* listener slot.
C36_IndicesAreChecked ==
  [][ (last_call' # last_call
         /\ last_call'.op \in {"GetInput", "SetOutput", "IsInputDirty",
                               "IsListenerDirty", "BindBroadcaster"}
         /\ OutOfRange(last_call'))
      => Rejected(last_call') ]_vars

\* the part of C36 that holds: GetInput, SetOutput and IsListenerDirty
C36_CheckedOperations ==
  [][ (last_call' # last_call
         /\ last_call'.op \in {"GetInput", "SetOutput", "IsListenerDirty"}
         /\ OutOfRange(last_call'))
      => Rejected(last_call') ]_vars

----------------------------------------------------------------------------
(* Claims about instances of one graph that run interleaved *)

\* the stored value of output 1 of node n in instance s
StoredOutput(gstates, s, n) ==
  gstates[s].output_buffer[graph.nodes[n].output_edges[1].data_offset]

\* the step runs the Execute callback of the accumulator (node1, the
\* CountEvent whose output is consumed) in the instance of the top frame
AccumulatorRuns ==
  /\ stack # << >> /\ stack[1].op = "Execute"
  /\ stack[1].i <= Len(graph.sorted_nodes)
  /\ graph.sorted_nodes[stack[1].i] = 2
  /\ IsDirty(graph, gs[stack[1].gs], 2)
  /\ Len(stack') = Len(stack)

\* C37: two GraphStates made from one Graph do not influence each other's
\* results, also when a node's behavior object keeps a member counter
\* (CountEvent): what an instance's accumulator writes is what it would
\* write were the instance run alone, namely the value the instance holds
\* from the node's last run plus the input the instance gives it, whatever
\* Initialize, Execute and broadcasts the other instance went through in
\* between.
C37_InstancesDoNotInterfere ==
  [][ AccumulatorRuns =>
        LET s == stack[1].gs IN
          StoredOutput(gs', s, 2) =
            StoredOutput(gs, s, 2) + GetInput(graph, gs[s].output_buffer, 2, 1) ]_vars

\* the part of C37 that holds: with one instance the accumulator adds its
\* input to what it wrote last, and the steps of an instance change no
\* buffer and no Timestamp of the other
C37_AloneOrBuffersOnly ==
  /\ [][ (AccumulatorRuns /\ \E r \in GraphStates : ~ gs[r].graph) =>
           LET s == stack[1].gs IN
             StoredOutput(gs', s, 2) =
               StoredOutput(gs, s, 2)
                 + GetInput(graph, gs[s].output_buffer, 2, 1) ]_vars
  /\ [][ (stack # << >> /\ stack[1].op \in {"Initialize", "Execute"}
            /\ Len(stack') <= Len(stack)) =>
           \A r \in GraphStates \ {stack[1].gs} : gs'[r] = gs[r] ]_vars

----------------------------------------------------------------------------
(* Claims about default values and dirtiness *)

\* C38: IsInputDirty(i) on an input that is not connected returns false in
\* every callback, also in the Execute pass that directly follows a
\* SetDefaultValue on that input; changing a default makes no node dirty,
\* and an Execute the application calls itself, with no broadcast behind
\* it, runs no callback whatever defaults were set before it.
C38_DefaultsAreNeverDirty ==
  /\ [](\A k \in 1..Len(stack) : \A j \in 1..Len(stack[k].executed) :
          LET e == stack[k].executed[j] IN
            \A i \in 1..Len(e.input_dirty) :
              ~ graph.nodes[e.node].input_edges[i].connected
                => ~ e.input_dirty[i])
  /\ [][ graph'.input_buffer # graph.input_buffer =>
           /\ gs' = gs
           /\ \A s \in GraphStates : \A n \in 1..Len(graph.nodes) :
                gs[s].graph =>
                  (IsDirty(graph', gs'[s], n) = IsDirty(graph, gs[s], n)) ]_vars
  /\ []((PassComplete /\ Len(stack) = 1 /\ stack[1].caller = NoListener) =>
          stack[1].executed = << >>)

\* the first pass of an instance after its Initialize has run the Join node,
\* which read at its unconnected input the value a SetDefaultValue had
\* stored there and was told that the input is not dirty
C38_Witness ==
  /\ PassComplete
  /\ gs[stack[1].gs].timestamp = 1
  /\ <<2, 2>> \in DOMAIN set_defaults
  /\ set_defaults[<<2, 2>>] = MaxValue
  /\ \E j \in 1..Len(stack[1].executed) :
       LET e == stack[1].executed[j] IN
         /\ e.node = 2
         /\ graph.nodes[2].signature = "Join"
         /\ ~ graph.nodes[2].input_edges[2].connected
         /\ e.inputs[2] = MaxValue
         /\ ~ e.input_dirty[2]
         /\ e.input_dirty[1]

----------------------------------------------------------------------------
(* Claims about the GraphFactory *)

\* the step is a call of LoadGraph
LoadGraphStep == loads' # loads

\* C39: once a load of a file has succeeded, LoadGraph returns the same
\* Graph object for every call with that filename and calls neither the
\* file-load callback nor ParseData for it again; a load that fails returns
\* null and caches nothing, so that the next LoadGraph with that filename
\* calls the callback again; a load that succeeds caches a Graph object no
\* other filename has.
C39_LoadGraphCaches ==
  /\ [][ LoadGraphStep =>
           LET f == loads'.filename IN
             IF f \in DOMAIN loaded_graphs
               THEN /\ loads'.result = <<loaded_graphs[f]>>
                    /\ loads'.load_file_callback = loads.load_file_callback
                    /\ loads'.ParseData = loads.ParseData
                    /\ loads'.graphs = loads.graphs
                    /\ loaded_graphs' = loaded_graphs
               ELSE /\ loads'.load_file_callback[f]
                         = loads.load_file_callback[f] + 1
                    /\ IF loads'.result = << >>
                         THEN loaded_graphs' = loaded_graphs
                         ELSE /\ loads'.ParseData[f] = loads.ParseData[f] + 1
                              /\ DOMAIN loaded_graphs'
                                   = DOMAIN loaded_graphs \cup {f}
                              /\ loads'.result = <<loaded_graphs'[f]>>
                              /\ \A g \in DOMAIN loaded_graphs :
                                   /\ loaded_graphs'[g] = loaded_graphs[g]
                                   /\ loaded_graphs'[g] # loaded_graphs'[f] ]_vars
  /\ [][ \A f \in DOMAIN loaded_graphs :
           /\ f \in DOMAIN loaded_graphs'
           /\ loaded_graphs'[f] = loaded_graphs[f] ]_vars

\* a file failed to load, loaded at the second call and came from the
\* cache at the third and fourth, with another file loaded in between
C39_Witness ==
  /\ DOMAIN loaded_graphs = Filenames
  /\ loads.filename = "a.bbgraph"
  /\ loads.calls["a.bbgraph"] = 4
  /\ loads.load_file_callback["a.bbgraph"] = 2
  /\ loads.ParseData["a.bbgraph"] = 1
  /\ loads.graphs = 3
  /\ loads.result = <<loaded_graphs["a.bbgraph"]>>
  /\ loaded_graphs["a.bbgraph"] < loaded_graphs["b.bbgraph"]

====
